---- MODULE Spec2Model ----
\* Model of the active-learning engines of l-and-l-backend.
\* Budgeted engine (src/unnamed/part_004): class AngluinLStar and the
\* GraphQL resolvers startLearning, answerQuery and currentDFAState over
\* the persisted tables LearningSession, OracleQuery, LearnedDFA and Item.
\* An AngluinLStar instance lives for one resolver call only, so its
\* fields (S, E, alphabet, observationTable, the two query counters) are
\* values threaded through the operators below (the record c), and only
\* the tables are state variables.
\* Example-driven engine (src/src/schema/angluin.ts): AngluinLStar.learn
\* and the methods it calls, stepped one statement of the do/while loop at
\* a time (variables ex*).
EXTENDS Integers, Sequences, FiniteSets, TLC

VARIABLES
    items,        \* Item table: the catalog, a sequence of item names
    sessions,     \* LearningSession table: sessions[id] = [status, description]
    queries,      \* OracleQuery table: queries[id], ids in creation order
    learnedDFA,   \* LearnedDFA table: sequence of rows (sessionId is unique)
    lastResult,   \* what the last mutation (startLearning, answerQuery) built and returned
    compact,      \* whether the store forgets old answered equivalence rows
    calls,        \* answerQuery calls in progress: position and local variables
    angluin,      \* an AngluinLStar instance between two method calls, and the last call
    exExamples,   \* example-driven engine: the session's stored examples
    exPc,         \* example-driven engine: position inside learn()
    exAlphabet,   \* example-driven engine: this.alphabet
    exS,          \* example-driven engine: this.S
    exE,          \* example-driven engine: this.E
    exTable,      \* example-driven engine: this.observationTable
    exQueries,    \* example-driven engine: membership rows of OracleQuery
    exEqRows,     \* example-driven engine: equivalence rows of OracleQuery
    exHypothesis, \* example-driven engine: local variable hypothesis
    exCounterexample \* example-driven engine: local variable counterexample

budgetVars == <<items, sessions, queries, learnedDFA, lastResult, compact, calls, angluin>>
exVars == <<exExamples, exPc, exAlphabet, exS, exE, exTable, exQueries,
            exEqRows, exHypothesis, exCounterexample>>
vars == <<items, sessions, queries, learnedDFA, lastResult, compact, calls,
          angluin,
          exExamples, exPc, exAlphabet, exS, exE, exTable, exQueries,
          exEqRows, exHypothesis, exCounterexample>>

----------------------------------------------------------------------------
(* Program constants *)

maxMembershipQueries == 8

maxEquivalenceQueries == 3

(* Bounds of the exploration *)

MaxItems == 9

MaxSessions == 1

MaxAnswers == 3

\* the catalog sizes explored where the oracle answers for ever
MaxFairItems == 2

----------------------------------------------------------------------------
(* Generic helpers: JavaScript Set / Map with insertion order *)

Range(seq) == {seq[i] : i \in DOMAIN seq}

Min(a, b) == IF a <= b THEN a ELSE b

Reverse(seq) == [i \in 1..Len(seq) |-> seq[Len(seq) + 1 - i]]

\* Set.prototype.add on an insertion-ordered set
SetAdd(seq, x) == IF x \in Range(seq) THEN seq ELSE Append(seq, x)

\* Body(v), with v evaluated once: a local constant
Bind(v, Body(_)) == CHOOSE y \in {Body(x) : x \in {v}} : TRUE

RECURSIVE SetAddFrom(_, _, _)
SetAddFrom(seq, xs, i) ==
    IF i > Len(xs) THEN seq
    ELSE Bind(SetAdd(seq, xs[i]), LAMBDA next : SetAddFrom(next, xs, i + 1))

\* for (const x of xs) set.add(x)
SetAddAll(seq, xs) == Bind(xs, LAMBDA ys : SetAddFrom(seq, ys, 1))

\* a nullable column / return value: <<>> is null, <<v>> is the value v
Null == <<>>

Some(v) == <<v>>

----------------------------------------------------------------------------
(* The catalog *)

SeedItems ==
    << "Margherita Pizza", "Pepperoni Pizza", "BBQ Chicken Pizza",
       "Hawaiian Pizza", "Coke", "Water", "Caesar Salad", "Greek Salad",
       "Garlic Bread", "Chicken Wings" >>

\* catalogs explored: empty, a two-item catalog, a
\* catalog with a repeated name (Item.name is not unique), and one larger
\* than the membership budget
Catalogs ==
    { <<>>,
      << "Margherita Pizza", "Caesar Salad" >>,
      << "Coke", "Coke" >>,
      SubSeq(SeedItems, 1, Min(MaxItems, Len(SeedItems))) }

\* getRandomCategory: the categories explored (two of the six)
TargetCategories == {"pizza", "salad"}

\* the strings the oracle answers with
Responses == {"true", "correct", "Coke"}

\* items.sort(() => Math.random() - 0.5): the orders explored
Shuffles(seq) == {seq, Reverse(seq)}

\* findMany without orderBy returns the rows in an order the database
\* chooses: the orders explored
FindManyOrders == {"asc", "desc"}

Ordered(seq, ord) == IF ord = "asc" THEN seq ELSE Reverse(seq)

----------------------------------------------------------------------------
(* Budgeted engine: the store and the in-memory observation table *)

\* a hypothesis as returned by generateHypothesis; transitions[s][a] = t is
\* the triple <<s, a, t>>
EmptyHypothesis ==
    [states |-> <<>>, alphabet |-> <<>>, transitions |-> {},
     startState |-> "", acceptStates |-> <<>>]

\* a membership row created already answered, as the example-driven
\* engine's heuristic leaves it
MembershipRow_Answered(sid, s, category) ==
    [sessionId |-> sid, queryType |-> "membership", query |-> s,
     category |-> category,
     hypothesis |-> [states |-> <<>>, alphabet |-> <<>>, transitions |-> {},
                     startState |-> "", acceptStates |-> <<>>],
     response |-> <<"false">>, status |-> "answered"]

\* prisma.oracleQuery.create for a membership query: queryData carries the
\* string and the target category, response is unset, status is 'pending'.
\* The row's id and createdAt are its position in the table: rows are
\* created by sequential awaited calls, so later rows are newer.
MembershipRow(sid, s, category) ==
    [sessionId |-> sid, queryType |-> "membership", query |-> s,
     category |-> category, hypothesis |-> EmptyHypothesis,
     response |-> Null, status |-> "pending"]

\* an equivalence row written with the type and status of an answered
\* membership row, about the size of the hypothesis
EquivalenceRow_AnsweredMembership(sid, hyp) ==
    [sessionId |-> sid, queryType |-> "membership",
     query |-> ToString(Len(hyp.states)),
     category |-> "", hypothesis |-> hyp,
     response |-> <<"true">>, status |-> "answered"]

\* prisma.oracleQuery.create for an equivalence query: queryData carries
\* the serialized hypothesis
EquivalenceRow(sid, hyp) ==
    [sessionId |-> sid, queryType |-> "equivalence", query |-> "",
     category |-> "", hypothesis |-> hyp,
     response |-> Null, status |-> "pending"]

\* prisma.oracleQuery.findMany({where}) with no orderBy
findMany(db, Where(_), ord) == Ordered(SelectSeq(db, Where), ord)

\* spellings read as true by initializeFromExistingQueries; the response
\* column is TEXT, so the boolean and number branches never apply
InitializeParse(response) ==
    /\ response # Null
    /\ response[1] \in {"true", "True", "TRUE", "1", "yes", "Yes", "YES"}

\* a membershipQuery that reads the exact string 'true' only
MembershipParse_ExactTrue(response) ==
    /\ response # Null
    /\ response[1] = "true"

\* spellings read as true by membershipQuery for a cached answer
MembershipParse(response) ==
    /\ response # Null
    /\ response[1] \in {"true", "True", "TRUE", "1", "yes", "Yes", "YES"}

\* forcePopulateObservationTable accepts the exact string 'true' only
ForceParse(response) ==
    /\ response # Null
    /\ response[1] = "true"

\* observationTable: a Map of Maps, kept as the sequence of its cells
\* [s, e, v] in insertion order
getObservationTableEntry(table, s, e) ==
    \E i \in DOMAIN table : table[i].s = s /\ table[i].e = e /\ table[i].v

setObservationTableEntry(table, s, e, value) ==
    IF \E i \in DOMAIN table : table[i].s = s /\ table[i].e = e
    THEN [i \in DOMAIN table |->
            IF table[i].s = s /\ table[i].e = e
            THEN [s |-> s, e |-> e, v |-> value] ELSE table[i]]
    ELSE Append(table, [s |-> s, e |-> e, v |-> value])

\* Array.from(this.observationTable.keys()): row keys, first insertion first
RECURSIVE TableKeysFrom(_, _, _)
TableKeysFrom(table, i, acc) ==
    IF i > Len(table) THEN acc
    ELSE Bind(SetAdd(acc, table[i].s),
              LAMBDA next : TableKeysFrom(table, i + 1, next))

TableKeys(table) == TableKeysFrom(table, 1, <<>>)

\* new AngluinLStar(sessionId): targetCategory is getRandomCategory()
NewAngluin(sid, category, db, ord) ==
    [sessionId |-> sid, targetCategory |-> category,
     alphabet |-> <<>>, table |-> <<>>, S |-> <<>>, E |-> <<>>,
     membershipQueryCount |-> 0, equivalenceQueryCount |-> 0,
     db |-> db, ord |-> ord]

\* no instance exists: no method has been called
NoAngluin ==
    [c |-> NewAngluin(0, "", <<>>, "asc"), op |-> "none", arg |-> "",
     ret |-> Null, threw |-> FALSE]

----------------------------------------------------------------------------
(* Budgeted engine: the methods of AngluinLStar.  Each takes the instance  *)
(* and store ("c") and returns them as the method leaves them; a method    *)
(* with a return value returns [c |-> ..., ret |-> ...].                   *)

getTargetCategoryForSession(c) ==
    Bind(findMany(c.db, LAMBDA q : q.sessionId = c.sessionId
                                   /\ q.queryType = "membership", c.ord),
         LAMBDA existingQueries :
           IF existingQueries # <<>> THEN Head(existingQueries).category
           ELSE c.targetCategory)

\* a loop body that adds the query string to S and to the table only
InitializeStep_StatesOnly(c, query) ==
    IF query.queryType = "membership"
    THEN [c EXCEPT
            !.S = SetAdd(@, query.query),
            !.table = setObservationTableEntry(@, query.query, query.query,
                                               InitializeParse(query.response))]
    ELSE c

\* the body of the loop over answeredQueries
InitializeStep(c, query) ==
    IF query.queryType = "membership"
    THEN [c EXCEPT
            !.S = SetAdd(@, query.query),
            !.E = SetAdd(@, query.query),
            !.table = setObservationTableEntry(@, query.query, query.query,
                                               InitializeParse(query.response))]
    ELSE c

RECURSIVE InitializeFrom(_, _, _)
InitializeFrom(c, answered, i) ==
    IF i > Len(answered) THEN c
    ELSE Bind(InitializeStep(c, answered[i]),
              LAMBDA next : InitializeFrom(next, answered, i + 1))

\* initializeFromExistingQueries whose findMany has no sessionId filter
initializeFromExistingQueries_AllSessions(c0) ==
    Bind(c0, LAMBDA c :
      Bind(findMany(c.db, LAMBDA q : q.status = "answered", c.ord),
           LAMBDA answeredQueries :
             [InitializeFrom([c EXCEPT !.S = <<>>, !.E = <<>>, !.table = <<>>],
                             answeredQueries, 1)
                EXCEPT !.alphabet = SetAddAll(@, items)]))

initializeFromExistingQueries(c0) ==
    Bind(c0, LAMBDA c :
      Bind(findMany(c.db, LAMBDA q : q.sessionId = c.sessionId
                                     /\ q.status = "answered", c.ord),
           LAMBDA answeredQueries :
             [InitializeFrom([c EXCEPT !.S = <<>>, !.E = <<>>, !.table = <<>>],
                             answeredQueries, 1)
                EXCEPT !.alphabet = SetAddAll(@, items)]))

\* a budget check that answers true once the budget is spent
membershipQueryBudgetCheck_True(c, s) ==
    IF c.membershipQueryCount >= maxMembershipQueries
    THEN [c |-> c, ret |-> TRUE]
    ELSE [c |-> [c EXCEPT
                   !.membershipQueryCount = @ + 1,
                   !.db = Append(@, MembershipRow(c.sessionId, s,
                                                  c.targetCategory))],
          ret |-> FALSE]

\* membershipQuery from its budget check on: no cached answer was found
membershipQueryBudgetCheck(c, s) ==
    IF c.membershipQueryCount >= maxMembershipQueries
    THEN [c |-> c, ret |-> FALSE]
    ELSE [c |-> [c EXCEPT
                   !.membershipQueryCount = @ + 1,
                   !.db = Append(@, MembershipRow(c.sessionId, s,
                                                  c.targetCategory))],
          ret |-> FALSE]

\* membershipQuery that never finds a cached answer
membershipQuery_NoCache(c, s) == membershipQueryBudgetCheck(c, s)

membershipQuery(c, s) ==
    Bind(SelectSeq(findMany(c.db, LAMBDA q : q.sessionId = c.sessionId
                                             /\ q.queryType = "membership"
                                             /\ q.status = "answered", c.ord),
                   LAMBDA q : q.query = s),
         LAMBDA matching :
           IF matching # <<>>
           THEN [c |-> c, ret |-> MembershipParse(Head(matching).response)]
           ELSE membershipQueryBudgetCheck(c, s))

\* the body of the loop of buildObservationTable
BuildStep(c, foodItem) ==
    Bind(membershipQuery(c, foodItem),
         LAMBDA r : [r.c EXCEPT !.table =
                        setObservationTableEntry(@, foodItem, foodItem, r.ret)])

RECURSIVE BuildFrom(_, _, _)
BuildFrom(c, experiments, i) ==
    IF i > Len(experiments) THEN c
    ELSE Bind(BuildStep(c, experiments[i]),
              LAMBDA next : BuildFrom(next, experiments, i + 1))

\* the loop runs over Array.from(this.E), a copy taken before the loop
buildObservationTable(c0) == Bind(c0, LAMBDA c : BuildFrom(c, c.E, 1))

\* the body of the loop of forcePopulateObservationTable
ForcePopulateStep(c, query) ==
    [c EXCEPT
       !.S = SetAdd(@, query.query),
       !.E = SetAdd(@, query.query),
       !.table = setObservationTableEntry(@, query.query, query.query,
                                          ForceParse(query.response))]

RECURSIVE ForcePopulateFrom(_, _, _)
ForcePopulateFrom(c, answered, i) ==
    IF i > Len(answered) THEN c
    ELSE Bind(ForcePopulateStep(c, answered[i]),
              LAMBDA next : ForcePopulateFrom(next, answered, i + 1))

forcePopulateObservationTable(c) ==
    Bind(findMany(c.db, LAMBDA q : q.sessionId = c.sessionId
                                   /\ q.queryType = "membership"
                                   /\ q.status = "answered", c.ord),
         LAMBDA answeredQueries : ForcePopulateFrom(c, answeredQueries, 1))

\* an accept test that accepts every state that has a cell of its own
IsAccepted_AnyCell(table, foodItem) ==
    \E i \in DOMAIN table : table[i].s = foodItem /\ table[i].e = foodItem

\* an accept test that accepts every state
IsAccepted_Always(table, foodItem) == TRUE

\* the accept test of generateHypothesis for one state
IsAccepted(table, foodItem) == getObservationTableEntry(table, foodItem, foodItem)

\* generateHypothesis, first recovery: S empty while the table has rows
RepopulateS(c) ==
    IF Len(c.S) = 0 /\ Len(TableKeys(c.table)) > 0
    THEN [c EXCEPT !.S = SetAddAll(@, TableKeys(c.table))]
    ELSE c

\* generateHypothesis, second recovery: the table is empty
RepopulateTable(c) ==
    IF Len(TableKeys(c.table)) = 0 THEN forcePopulateObservationTable(c) ELSE c

\* states is filled from S before the empty-table recovery runs;
\* acceptStates, transitions and startState are read from S after it.
\* transitions[s] is created for the states of the first loop only, so
\* transitions[s][s] = s throws a TypeError (threw) for a state the
\* recovery added
generateHypothesis(c0) ==
    Bind(RepopulateS(c0), LAMBDA c1 :
      Bind(RepopulateTable(c1), LAMBDA c2 :
        [c |-> c2,
         threw |-> ~ (Range(c2.S) \subseteq Range(c1.S)),
         ret |-> [states |-> c1.S,
                  alphabet |-> c2.alphabet,
                  transitions |-> {<<s, s, s>> : s \in Range(c2.S)},
                  startState |-> IF c2.S # <<>> THEN Head(c2.S) ELSE "",
                  acceptStates |->
                    SelectSeq(c2.S, LAMBDA s : IsAccepted(c2.table, s))]]))

\* an equivalenceQuery that does not count the query it creates
equivalenceQueryCreate_Uncounted(c) ==
    Bind(generateHypothesis(
           buildObservationTable(initializeFromExistingQueries(c))),
         LAMBDA h :
           [c |-> [h.c EXCEPT !.db =
                      Append(@, EquivalenceRow(c.sessionId, h.ret))],
            ret |-> Null])

\* equivalenceQuery past its budget check
equivalenceQueryCreate(c) ==
    Bind(generateHypothesis(
           buildObservationTable(
             initializeFromExistingQueries(
               [c EXCEPT !.equivalenceQueryCount = @ + 1]))),
         LAMBDA h :
           [c |-> [h.c EXCEPT !.db =
                      Append(@, EquivalenceRow(c.sessionId, h.ret))],
            ret |-> Null])

\* returns 'correct' (Some("correct")) or null
equivalenceQuery(c0) ==
    Bind(c0, LAMBDA c :
      IF c.equivalenceQueryCount >= maxEquivalenceQueries
      THEN [c |-> c, ret |-> Some("correct")]
      ELSE equivalenceQueryCreate(c))

\* the branch shared by learn and continueLearning after equivalenceQuery
absorbCounterexample(c, counterexample) ==
    IF counterexample # Null /\ counterexample[1] # "correct"
    THEN buildObservationTable(
           [c EXCEPT !.S = SetAdd(@, counterexample[1]),
                     !.E = SetAdd(@, counterexample[1])])
    ELSE c

\* a learn() that fills the alphabet and leaves S and E empty
learnSeed_AlphabetOnly(c, shuffledItems) ==
    [c EXCEPT !.alphabet = SetAddAll(@, shuffledItems)]

\* learn() up to its first buildObservationTable; shuffledItems is items
\* after the in-place random sort
learnSeed(c, shuffledItems) ==
    Bind(SubSeq(shuffledItems, 1,
                Min(maxMembershipQueries, Len(shuffledItems))),
         LAMBDA selectedItems :
           [c EXCEPT !.S = SetAddAll(@, selectedItems),
                     !.E = SetAddAll(@, selectedItems),
                     !.alphabet = SetAddAll(@, shuffledItems)])

\* ret is the hypothesis learn returns; S and E are the sets it was built
\* from
learn(c, shuffledItems) ==
    Bind(generateHypothesis(buildObservationTable(learnSeed(c, shuffledItems))),
         LAMBDA h :
           Bind(equivalenceQuery(h.c), LAMBDA q :
             [c |-> absorbCounterexample(q.c, q.ret),
              ret |-> h.ret, S |-> h.c.S, E |-> h.c.E]))

\* isItemInCategory: Item has no actualCategory column, so the database
\* branch never answers and the name is matched against the category's
\* keywords (the lower-cased name contains 'pizza', or 'salad'); shown for
\* the names of SeedItems and the categories explored
isItemInCategory(itemName, category) ==
    CASE category = "pizza" ->
           itemName \in {"Margherita Pizza", "Pepperoni Pizza",
                         "BBQ Chicken Pizza", "Hawaiian Pizza"}
      [] category = "salad" ->
           itemName \in {"Caesar Salad", "Greek Salad"}
      [] OTHER -> FALSE

predictItem(itemName, hypothesis) == itemName \in Range(hypothesis.acceptStates)

\* the number of catalog items the hypothesis classifies as the reference does
CorrectPredictions(hypothesis, category) ==
    Cardinality({i \in DOMAIN items :
                   predictItem(items[i], hypothesis)
                     = isItemInCategory(items[i], category)})

\* evaluatePerformance: the description written to the session is kept as
\* the values interpolated into it
evaluatePerformance(c0) ==
    Bind(generateHypothesis(c0), LAMBDA h :
      Bind(CorrectPredictions(h.ret, h.c.targetCategory), LAMBDA correct :
        [c |-> h.c,
         description |-> [text |-> "Learning completed",
                          category |-> h.c.targetCategory,
                          correct |-> correct,
                          total |-> Len(items)],
         ret |-> [hypothesis |-> h.ret,
                  metrics |->
                    [totalQueries |-> h.c.membershipQueryCount
                                        + h.c.equivalenceQueryCount,
                     correctPredictions |-> correct,
                     incorrectPredictions |-> Len(items) - correct,
                     itemsTested |-> items]]]))

\* continueLearning up to its generateHypothesis (line 796)
continueLearningBuild(c0) ==
    Bind(c0, LAMBDA c :
      generateHypothesis(
        buildObservationTable(
          initializeFromExistingQueries(
            [c EXCEPT !.targetCategory = getTargetCategoryForSession(c)]))))

\* continueLearning: built is the hypothesis of line 796 and S, E the sets
\* it was built from; ret is what evaluatePerformance returns
continueLearning(c0) ==
    Bind(continueLearningBuild(c0), LAMBDA h :
      Bind(equivalenceQuery(h.c), LAMBDA q :
        Bind(evaluatePerformance(absorbCounterexample(q.c, q.ret)), LAMBDA ev :
          [c |-> ev.c, description |-> ev.description, ret |-> ev.ret,
           built |-> h.ret, S |-> h.c.S, E |-> h.c.E])))

\* forcePopulateSets
forcePopulateSets(c) ==
    [c EXCEPT !.S = SetAddAll(@, TableKeys(c.table)),
              !.E = SetAddAll(@, TableKeys(c.table))]

----------------------------------------------------------------------------
(* Budgeted engine: the resolvers *)

\* result.states and the like: reading a property an object does not have
\* gives undefined (Null here)
Prop(obj, name) == IF name \in DOMAIN obj THEN Some(obj[name]) ELSE Null

\* prisma.learnedDFA.upsert({where: {sessionId}, update, create}): JSON
\* .stringify(undefined) is undefined, a field set to undefined is a field
\* left out, and create without a required column is rejected (throws)
\* before anything is written
learnedDFAUpsert(table, sid, result) ==
    LET data == [f \in {"states", "alphabet", "transitions", "startState",
                        "acceptStates"} |-> Prop(result, f)]
        row == [sessionId |-> sid,
                states |-> data["states"][1],
                alphabet |-> data["alphabet"][1],
                transitions |-> data["transitions"][1],
                startState |-> data["startState"][1],
                acceptStates |-> data["acceptStates"][1]]
    IN IF \E f \in DOMAIN data : data[f] = Null
       THEN [threw |-> TRUE, table |-> table]
       ELSE IF \E i \in DOMAIN table : table[i].sessionId = sid
       THEN [threw |-> FALSE,
             table |-> [i \in DOMAIN table |->
                          IF table[i].sessionId = sid THEN row ELSE table[i]]]
       ELSE [threw |-> FALSE, table |-> Append(table, row)]

\* ids of the session's pending queries, oldest first
PendingIds(db, sid) ==
    {i \in DOMAIN db : db[i].sessionId = sid /\ db[i].status = "pending"}

\* findFirst with orderBy createdAt 'desc': the newest pending row
OldestPending_Newest(db, sid) ==
    IF PendingIds(db, sid) = {} THEN 0
    ELSE CHOOSE i \in PendingIds(db, sid) :
           \A j \in PendingIds(db, sid) : i >= j

\* findFirst({where: {sessionId, status: 'pending'}, orderBy: {createdAt:
\* 'asc'}}): the id of the row found, 0 for null
OldestPending(db, sid) ==
    IF PendingIds(db, sid) = {} THEN 0
    ELSE CHOOSE i \in PendingIds(db, sid) :
           \A j \in PendingIds(db, sid) : i <= j

\* remainingQueries[0] of a findMany without orderBy
FirstRemaining(db, sid, ord) ==
    IF ord = "asc" THEN OldestPending(db, sid)
    ELSE CHOOSE i \in PendingIds(db, sid) :
           \A j \in PendingIds(db, sid) : i >= j

NoResult ==
    [op |-> "none", sessionId |-> 0, answered |-> 0, continued |-> FALSE,
     built |-> EmptyHypothesis, S |-> <<>>, E |-> <<>>, final |-> Null,
     query |-> 0, isComplete |-> FALSE, error |-> "", reanswered |-> FALSE]

InitialDescription ==
    [text |-> "Learning session", category |-> "", correct |-> 0, total |-> 0]

\* An answered equivalence row is read by no method: initializeFromExisting
\* Queries skips it, membershipQuery and forcePopulateObservationTable
\* select membership rows.  When compact is set the store keeps, of each
\* session, only the newest answered equivalence row, so that a session
\* that goes on for ever is a finite cycle of states.
IsOldAnsweredEquivalence(db, i) ==
    /\ db[i].queryType = "equivalence"
    /\ db[i].status # "pending"
    /\ \E j \in DOMAIN db : /\ j > i
                            /\ db[j].sessionId = db[i].sessionId
                            /\ db[j].queryType = "equivalence"
                            /\ db[j].status # "pending"

RECURSIVE DropOld(_, _)
DropOld(db, i) ==
    IF i > Len(db) THEN <<>>
    ELSE IF IsOldAnsweredEquivalence(db, i) THEN DropOld(db, i + 1)
    ELSE <<db[i]>> \o DropOld(db, i + 1)

Stored(db) == IF compact THEN DropOld(db, 1) ELSE db

\* the number of answers explored
MayAnswer ==
    \/ compact
    \/ Cardinality({i \in DOMAIN queries : queries[i].status # "pending"})
         < MaxAnswers

\* the startLearning resolver
StartLearningCall(category, shuffledItems, ord) ==
    \E sid \in {Len(sessions) + 1} :
    \E r \in {learn(NewAngluin(sid, category, queries, ord), shuffledItems)} :
    \E firstQuery \in {OldestPending(r.c.db, sid)} :
       /\ sessions' = Append(sessions, [status |-> "active",
                                        description |-> InitialDescription])
       /\ queries' = r.c.db
       /\ lastResult' =
            [NoResult EXCEPT
               !.op = "startLearning", !.sessionId = sid,
               !.built = r.ret, !.S = r.S, !.E = r.E,
               !.query = firstQuery,
               !.isComplete = (firstQuery = 0),
               !.final = IF firstQuery = 0 THEN Some(r.ret) ELSE Null]
       /\ UNCHANGED <<items, learnedDFA, compact, calls, angluin>>

\* startLearning, explored while fewer than MaxSessions sessions exist
StartLearning(category, shuffledItems, ord) ==
    /\ Len(sessions) < MaxSessions
    /\ StartLearningCall(category, shuffledItems, ord)

\* updateMany({where: {sessionId}}): every row of the session is written
AnswerRow_WholeSession(db, id, response) ==
    [i \in DOMAIN db |->
       IF db[i].sessionId = db[id].sessionId
       THEN [db[i] EXCEPT !.response = Some(response), !.status = "answered"]
       ELSE db[i]]

\* the update of answerQuery: response attached, status set
AnswerRow(db, id, response) ==
    [db EXCEPT ![id].response = Some(response), ![id].status = "answered"]

\* answerQuery when no pending query is found
AnswerQueryNoPending(sid) ==
    /\ OldestPending(queries, sid) = 0
    /\ lastResult' = [NoResult EXCEPT
                        !.op = "answerQuery", !.sessionId = sid,
                        !.error = "No pending queries found",
                        !.isComplete = TRUE]
    /\ UNCHANGED <<items, sessions, queries, learnedDFA, compact, calls, angluin>>

\* answerQuery when other queries stay pending
AnswerQueryNext(sid, response, ord) ==
    \E currentQuery \in {OldestPending(queries, sid)} \ {0} :
    \E db \in {AnswerRow(queries, currentQuery, response)} :
       /\ MayAnswer
       /\ PendingIds(db, sid) # {}
       /\ queries' = db
       /\ lastResult' = [NoResult EXCEPT
                           !.op = "answerQuery", !.sessionId = sid,
                           !.answered = currentQuery,
                           !.query = FirstRemaining(db, sid, ord),
                           !.isComplete = FALSE]
       /\ UNCHANGED <<items, sessions, learnedDFA, compact, calls, angluin>>

\* answerQuery when the answered query was the last pending one
AnswerQueryContinue(sid, response, category, ord) ==
    \E currentQuery \in {OldestPending(queries, sid)} \ {0} :
    \E db \in {AnswerRow(queries, currentQuery, response)} :
       /\ MayAnswer
       /\ PendingIds(db, sid) = {}
       /\ \E r \in {continueLearning(NewAngluin(sid, category, db, ord))} :
          \E up \in {learnedDFAUpsert(learnedDFA, sid, r.ret)} :
          /\ queries' = Stored(r.c.db)
          /\ sessions' = [sessions EXCEPT ![sid].description = r.description]
          /\ learnedDFA' = up.table
          /\ lastResult' =
               [NoResult EXCEPT
                  !.op = "answerQuery", !.sessionId = sid,
                  !.answered = currentQuery, !.continued = TRUE,
                  !.built = r.built, !.S = r.S, !.E = r.E,
                  !.isComplete = TRUE,
                  !.error = IF up.threw THEN "Error continuing learning" ELSE "",
                  !.final = IF up.threw THEN Null ELSE Some(r.ret)]
          /\ UNCHANGED <<items, compact, calls, angluin>>

AnswerQuery(sid) ==
    \/ AnswerQueryNoPending(sid)
    \/ \E response \in Responses, ord \in FindManyOrders :
         AnswerQueryNext(sid, response, ord)
    \/ \E response \in Responses, category \in TargetCategories,
          ord \in FindManyOrders :
         AnswerQueryContinue(sid, response, category, ord)

\* the currentDFAState resolver: what it builds and returns
currentDFAState(sid, category, ord) ==
    Bind(buildObservationTable(
           initializeFromExistingQueries(
             NewAngluin(sid, category, queries, ord))),
         LAMBDA c1 :
           Bind(generateHypothesis(IF Len(c1.S) = 0 THEN forcePopulateSets(c1)
                                   ELSE c1),
                LAMBDA h : [c |-> h.c, ret |-> h.ret,
                            targetCategory |->
                              getTargetCategoryForSession(h.c)]))

\* the JSON text currentDFAState returns: the try block's object; the
\* catch block's {error: 'Failed to get DFA state'} is returned when a
\* store call rejects, which no call of the model does
currentDFAStateReturn(sid, category, ord) ==
    Bind(currentDFAState(sid, category, ord),
         LAMBDA r : [error |-> "",
                     states |-> r.ret.states,
                     alphabet |-> r.ret.alphabet,
                     transitions |-> r.ret.transitions,
                     startState |-> r.ret.startState,
                     acceptStates |-> r.ret.acceptStates,
                     targetCategory |-> r.targetCategory])

\* the JSON text learningMetrics returns
learningMetrics(sid) ==
    IF sid \notin DOMAIN sessions
    THEN [error |-> "Session not found", description |-> Null,
          totalQueries |-> 0, membershipQueries |-> 0,
          equivalenceQueries |-> 0, hasLearnedDFA |-> FALSE]
    ELSE [error |-> "",
          description |-> Some(sessions[sid].description),
          totalQueries |->
            Cardinality({i \in DOMAIN queries : queries[i].sessionId = sid}),
          membershipQueries |->
            Cardinality({i \in DOMAIN queries :
                           /\ queries[i].sessionId = sid
                           /\ queries[i].queryType = "membership"}),
          equivalenceQueries |->
            Cardinality({i \in DOMAIN queries :
                           /\ queries[i].sessionId = sid
                           /\ queries[i].queryType = "equivalence"}),
          hasLearnedDFA |->
            \E i \in DOMAIN learnedDFA : learnedDFA[i].sessionId = sid]

\* a currentDFAState call: a query, it writes what its methods write
CurrentDFAState(sid, category, ord) ==
    /\ queries' = currentDFAState(sid, category, ord).c.db
    /\ UNCHANGED <<items, sessions, learnedDFA, lastResult, compact, calls, angluin>>

----------------------------------------------------------------------------
(* Budgeted engine: one AngluinLStar instance, its methods called one by   *)
(* one in the orders learn, continueLearning and currentDFAState call      *)
(* them, membershipQuery also for any experiment of E; an answer of the    *)
(* oracle (the update of answerQuery) may land between two calls.          *)

\* the session the instance is created for
InstanceSession == 1

\* method calls that create a row are explored while the store holds fewer
\* rows than this (learn's first buildObservationTable is not limited)
MaxInstanceRows == 3

\* the answers the oracle gives
MaxInstanceAnswers == 1

\* the strings the oracle answers with here: spellings of true the parsers
\* list, one they do not list, and a spelling of false
InstanceResponses == {"true", "True", "tRUE", "no"}

\* the method has returned (or thrown): the instance and the store as it
\* leaves them
Returned(op, arg, c, ret, threw) ==
    /\ angluin' = [c |-> c, op |-> op, arg |-> arg, ret |-> ret,
                   threw |-> threw]
    /\ queries' = c.db
    /\ UNCHANGED <<items, sessions, learnedDFA, lastResult, compact, calls>>

\* getRandomCategory: the category explored here
InstanceCategory == "pizza"

\* new AngluinLStar(sessionId)
NewInstanceCall(ord) ==
    Returned("new", "",
             NewAngluin(InstanceSession, InstanceCategory, queries, ord),
             Null, FALSE)

\* learn() of a new session, up to its first buildObservationTable
LearnSeedCall(shuffledItems) ==
    /\ angluin.op = "new"
    /\ queries = <<>>
    /\ Returned("learn", "", learnSeed(angluin.c, shuffledItems), Null, FALSE)

InitializeCall ==
    /\ angluin.op = "new"
    /\ Returned("initializeFromExistingQueries", "",
                initializeFromExistingQueries(angluin.c), Null, FALSE)

BuildObservationTableCall ==
    /\ angluin.op \in {"learn", "initializeFromExistingQueries"}
    /\ Returned("buildObservationTable", "",
                buildObservationTable(angluin.c), Null, FALSE)

MembershipQueryCall(s) ==
    /\ angluin.op \in {"buildObservationTable", "membershipQuery"}
    /\ \E r \in {membershipQuery(angluin.c, s)} :
         /\ Len(r.c.db) = Len(queries) \/ Len(r.c.db) <= MaxInstanceRows
         /\ Returned("membershipQuery", s, r.c, r.ret, FALSE)

GenerateHypothesisCall ==
    /\ angluin.op \in {"buildObservationTable", "equivalenceQuery"}
    /\ \E r \in {generateHypothesis(angluin.c)} :
         Returned("generateHypothesis", "", r.c,
                  IF r.threw THEN Null ELSE Some(r.ret), r.threw)

EquivalenceQueryCall ==
    /\ angluin.op = "generateHypothesis"
    /\ ~ angluin.threw
    /\ \E r \in {equivalenceQuery(angluin.c)} :
         /\ Len(r.c.db) = Len(queries) \/ Len(r.c.db) <= MaxInstanceRows
         /\ Returned("equivalenceQuery", "", r.c, r.ret, FALSE)

\* answerQuery's update of the oldest pending query of the session
OracleAnswer(response) ==
    /\ angluin.op # "none"
    /\ OldestPending(queries, InstanceSession) # 0
    /\ Cardinality({i \in DOMAIN queries : queries[i].status = "answered"})
         < MaxInstanceAnswers
    /\ queries' = AnswerRow(queries, OldestPending(queries, InstanceSession),
                            response)
    /\ angluin' = [angluin EXCEPT !.c.db = queries']
    /\ UNCHANGED <<items, sessions, learnedDFA, lastResult, compact, calls>>

----------------------------------------------------------------------------
(* Budgeted engine: answerQuery calls that run concurrently.  A call is    *)
(* suspended at each await; between two store accesses of one call the     *)
(* other calls may take theirs.  continueLearning is taken as one step.    *)

\* the answerQuery calls in flight
MaxRaceCalls == 2

\* the session the concurrent calls are made for
RaceSession == 1

\* a call that has not reached the resolver: wrote is the id of the row its
\* update wrote, created the number of equivalence rows its
\* continueLearning created
IdleCall ==
    [pc |-> "idle", response |-> "", currentQuery |-> 0, wrote |-> 0,
     created |-> 0]

NoCalls == [k \in 1..MaxRaceCalls |-> IdleCall]

\* the call arrives and awaits findFirst; with no pending query it returns
AnswerQueryFindFirst(k, response) ==
    \E currentQuery \in {OldestPending(queries, RaceSession)} :
       /\ calls[k].pc = "idle"
       /\ RaceSession \in DOMAIN sessions
       /\ calls' = [calls EXCEPT
                      ![k].pc = IF currentQuery = 0 THEN "returned"
                                ELSE "update",
                      ![k].response = response,
                      ![k].currentQuery = currentQuery]
       /\ lastResult' =
            IF currentQuery = 0
            THEN [NoResult EXCEPT
                    !.op = "answerQuery", !.sessionId = RaceSession,
                    !.error = "No pending queries found", !.isComplete = TRUE]
            ELSE lastResult
       /\ UNCHANGED <<items, sessions, queries, learnedDFA, compact, angluin>>

\* the call awaits update({where: {id: currentQuery.id}})
AnswerQueryUpdate(k) ==
    /\ calls[k].pc = "update"
    /\ queries' = AnswerRow(queries, calls[k].currentQuery, calls[k].response)
    /\ calls' = [calls EXCEPT ![k].pc = "findMany",
                              ![k].wrote = calls[k].currentQuery]
    /\ UNCHANGED <<items, sessions, learnedDFA, lastResult, compact, angluin>>

\* the call awaits findMany of the pending queries; with some left it
\* returns the first of them
AnswerQueryFindMany(k, ord) ==
    /\ calls[k].pc = "findMany"
    /\ calls' = [calls EXCEPT
                   ![k].pc = IF PendingIds(queries, RaceSession) = {}
                             THEN "continueLearning" ELSE "returned"]
    /\ lastResult' =
         IF PendingIds(queries, RaceSession) = {} THEN lastResult
         ELSE [NoResult EXCEPT
                 !.op = "answerQuery", !.sessionId = RaceSession,
                 !.answered = calls[k].currentQuery,
                 !.query = FirstRemaining(queries, RaceSession, ord),
                 !.isComplete = FALSE]
    /\ UNCHANGED <<items, sessions, queries, learnedDFA, compact, angluin>>

\* the equivalence rows of a session in a store
EquivalenceCount(db, sid) ==
    Cardinality({i \in DOMAIN db : /\ db[i].sessionId = sid
                                   /\ db[i].queryType = "equivalence"})

\* the call runs continueLearning and the upsert, and returns
AnswerQueryContinueLearning(k, category, ord) ==
    /\ calls[k].pc = "continueLearning"
    /\ \E r \in {continueLearning(NewAngluin(RaceSession, category, queries,
                                             ord))} :
       \E up \in {learnedDFAUpsert(learnedDFA, RaceSession, r.ret)} :
          /\ queries' = r.c.db
          /\ sessions' = [sessions EXCEPT
                            ![RaceSession].description = r.description]
          /\ learnedDFA' = up.table
          /\ calls' = [calls EXCEPT
                         ![k].pc = "returned",
                         ![k].created =
                            EquivalenceCount(r.c.db, RaceSession)
                              - EquivalenceCount(queries, RaceSession)]
          /\ lastResult' =
               [NoResult EXCEPT
                  !.op = "answerQuery", !.sessionId = RaceSession,
                  !.answered = calls[k].currentQuery, !.continued = TRUE,
                  !.built = r.built, !.S = r.S, !.E = r.E,
                  !.isComplete = TRUE,
                  !.error = IF up.threw THEN "Error continuing learning" ELSE "",
                  !.final = IF up.threw THEN Null ELSE Some(r.ret)]
          /\ UNCHANGED <<items, compact, angluin>>

----------------------------------------------------------------------------
(* First version of the budgeted engine (src/unnamed/part_005): the        *)
(* methods of its AngluinLStar and the resolvers createLearningSession,    *)
(* runAngluinAlgorithm and answerOracleQuery.  Names carry the prefix P5   *)
(* where part_004 has a method of the same name.                           *)

\* the sessions explored
MaxOracleSessions == 1

\* calls are explored while the store holds fewer rows than this
MaxOracleRows == 4

\* the catalogs explored with this engine
OracleCatalogs ==
    { <<>>, << "Margherita Pizza" >>, << "Margherita Pizza", "Caesar Salad" >> }

\* the queryData column of a membership row: JSON.stringify(queryData,
\* null, 2), the text of an object holding the string
QueryDataText(row) == [kind |-> "json", text |-> row.query]

\* the string s itself, as membershipQuery passes it to findFirst
RawText(s) == [kind |-> "raw", text |-> s]

\* response === 'true'
P5_Parse(response) == response = Some("true")

\* the body of the loop over answeredQueries
P5_InitializeStep(c, query) ==
    IF query.queryType = "membership"
    THEN [c EXCEPT
            !.S = SetAdd(@, query.query),
            !.E = SetAdd(@, query.query),
            !.table = setObservationTableEntry(@, query.query, query.query,
                                               P5_Parse(query.response))]
    ELSE c

RECURSIVE P5_InitializeFrom(_, _, _)
P5_InitializeFrom(c, answered, i) ==
    IF i > Len(answered) THEN c
    ELSE Bind(P5_InitializeStep(c, answered[i]),
              LAMBDA next : P5_InitializeFrom(next, answered, i + 1))

P5_initializeFromExistingQueries(c0) ==
    Bind(c0, LAMBDA c :
      Bind(findMany(c.db, LAMBDA q : q.sessionId = c.sessionId
                                     /\ q.status = "answered", c.ord),
           LAMBDA answeredQueries : P5_InitializeFrom(c, answeredQueries, 1)))

\* the cached-answer lookup compares the queryData column with s
P5_membershipQuery(c, s) ==
    Bind(SelectSeq(c.db, LAMBDA q : /\ q.sessionId = c.sessionId
                                    /\ q.queryType = "membership"
                                    /\ QueryDataText(q) = RawText(s)
                                    /\ q.status = "answered"),
         LAMBDA matching :
           IF matching # <<>>
           THEN [c |-> c, ret |-> P5_Parse(Head(matching).response)]
           ELSE membershipQueryBudgetCheck(c, s))

P5_BuildStep(c, foodItem) ==
    Bind(P5_membershipQuery(c, foodItem),
         LAMBDA r : [r.c EXCEPT !.table =
                        setObservationTableEntry(@, foodItem, foodItem, r.ret)])

RECURSIVE P5_BuildFrom(_, _, _)
P5_BuildFrom(c, experiments, i) ==
    IF i > Len(experiments) THEN c
    ELSE Bind(P5_BuildStep(c, experiments[i]),
              LAMBDA next : P5_BuildFrom(next, experiments, i + 1))

P5_buildObservationTable(c0) == Bind(c0, LAMBDA c : P5_BuildFrom(c, c.E, 1))

P5_generateHypothesis(c) ==
    [states |-> c.S,
     alphabet |-> c.alphabet,
     transitions |-> {<<s, s, s>> : s \in Range(c.S)},
     startState |-> IF c.S # <<>> THEN Head(c.S) ELSE "",
     acceptStates |->
       SelectSeq(c.S, LAMBDA s : getObservationTableEntry(c.table, s, s))]

\* returns 'correct' (Some("correct")) or null
P5_equivalenceQuery(c, hypothesis) ==
    IF c.equivalenceQueryCount >= maxEquivalenceQueries
    THEN [c |-> c, ret |-> Some("correct")]
    ELSE [c |-> [c EXCEPT
                   !.equivalenceQueryCount = @ + 1,
                   !.db = Append(@, EquivalenceRow(c.sessionId, hypothesis))],
          ret |-> Null]

\* the branch of learn and continueLearning after equivalenceQuery
P5_absorbCounterexample(c, counterexample) ==
    IF counterexample # Null /\ counterexample[1] # "correct"
    THEN P5_buildObservationTable(
           [c EXCEPT !.S = SetAdd(@, counterexample[1]),
                     !.E = SetAdd(@, counterexample[1])])
    ELSE c

P5_learn(c, shuffledItems) ==
    Bind(P5_buildObservationTable(learnSeed(c, shuffledItems)), LAMBDA c1 :
      Bind(P5_generateHypothesis(c1), LAMBDA hypothesis :
        Bind(P5_equivalenceQuery(c1, hypothesis), LAMBDA q :
          [c |-> P5_absorbCounterexample(q.c, q.ret), ret |-> hypothesis])))

\* evaluatePerformance: predictItem and the reference are the same test
\* (the lower-cased name contains 'pizza'), so every item counts as correct
P5_evaluatePerformance(c) ==
    [c |-> c,
     description |-> [text |-> "Learning completed", category |-> "",
                      correct |-> Len(items), total |-> Len(items)],
     ret |-> [hypothesis |-> P5_generateHypothesis(c),
              metrics |->
                [totalQueries |-> c.membershipQueryCount
                                    + c.equivalenceQueryCount,
                 correctPredictions |-> Len(items),
                 incorrectPredictions |-> 0,
                 itemsTested |-> items]]]

P5_continueLearning(c0) ==
    Bind(P5_buildObservationTable(P5_initializeFromExistingQueries(c0)),
         LAMBDA c1 :
           Bind(P5_equivalenceQuery(c1, P5_generateHypothesis(c1)), LAMBDA q :
             P5_evaluatePerformance(P5_absorbCounterexample(q.c, q.ret))))

\* createLearningSession
CreateLearningSession ==
    /\ Len(sessions) < MaxOracleSessions
    /\ sessions' = Append(sessions, [status |-> "active",
                                     description |-> InitialDescription])
    /\ lastResult' = [NoResult EXCEPT !.op = "createLearningSession",
                                      !.sessionId = Len(sessions) + 1]
    /\ UNCHANGED <<items, queries, learnedDFA, compact, calls, angluin>>

\* prisma.learnedDFA.create: sessionId is unique
learnedDFACreate(table, sid, result) ==
    IF \E i \in DOMAIN table : table[i].sessionId = sid
    THEN [threw |-> TRUE, table |-> table]
    ELSE [threw |-> FALSE,
          table |-> Append(table, [sessionId |-> sid,
                                   states |-> result.states,
                                   alphabet |-> result.alphabet,
                                   transitions |-> result.transitions,
                                   startState |-> result.startState,
                                   acceptStates |-> result.acceptStates])]

\* runAngluinAlgorithm on a session that exists; on one that does not, the
\* first oracleQuery.create is rejected by the foreign key and the call
\* throws with nothing written
RunAngluinAlgorithm(sid, category, shuffledItems, ord) ==
    /\ sid \in DOMAIN sessions
    /\ Len(queries) < MaxOracleRows
    /\ \E r \in {P5_learn(NewAngluin(sid, category, queries, ord),
                          shuffledItems)} :
       \E created \in {learnedDFACreate(learnedDFA, sid, r.ret)} :
          /\ queries' = r.c.db
          /\ learnedDFA' = created.table
          /\ lastResult' =
               [NoResult EXCEPT
                  !.op = "runAngluinAlgorithm", !.sessionId = sid,
                  !.built = r.ret,
                  !.error = IF created.threw THEN "Unique constraint failed"
                            ELSE "",
                  !.final = IF created.threw THEN Null ELSE Some(r.ret)]
          /\ UNCHANGED <<items, sessions, compact, calls, angluin>>

\* pendingQueries.length === 0 that always holds
NoPendingLeft_Always(db, sid) == TRUE

\* pendingQueries.length === 0
NoPendingLeft(db, sid) == PendingIds(db, sid) = {}

\* answerOracleQuery when queries of the session stay pending
AnswerOracleQueryOnly(queryId, response) ==
    \E db \in {AnswerRow(queries, queryId, response)} :
       /\ ~NoPendingLeft(db, db[queryId].sessionId)
       /\ queries' = db
       /\ lastResult' = [NoResult EXCEPT
                           !.op = "answerOracleQuery",
                           !.sessionId = db[queryId].sessionId,
                           !.answered = queryId,
                           !.reanswered =
                              (queries[queryId].status # "pending")]
       /\ UNCHANGED <<items, sessions, learnedDFA, compact, calls, angluin>>

\* answerOracleQuery when no query of the session is pending after the
\* update; an error of the upsert is caught and logged
AnswerOracleQueryContinue(queryId, response, category, ord) ==
    \E db \in {AnswerRow(queries, queryId, response)} :
    \E sid \in {db[queryId].sessionId} :
       /\ NoPendingLeft(db, sid)
       /\ \E r \in {P5_continueLearning(NewAngluin(sid, category, db, ord))} :
          \E up \in {learnedDFAUpsert(learnedDFA, sid, r.ret)} :
          /\ queries' = r.c.db
          /\ sessions' = [sessions EXCEPT ![sid].description = r.description]
          /\ learnedDFA' = up.table
          /\ lastResult' = [NoResult EXCEPT
                              !.op = "answerOracleQuery", !.sessionId = sid,
                              !.answered = queryId, !.continued = TRUE,
                              !.reanswered =
                                 (queries[queryId].status # "pending"),
                              !.built = r.ret.hypothesis]
          /\ UNCHANGED <<items, compact, calls, angluin>>

\* answerOracleQuery(queryId, response) for a row that exists (update of a
\* missing row throws with nothing written)
AnswerOracleQuery(queryId) ==
    /\ queryId \in DOMAIN queries
    /\ Len(queries) < MaxOracleRows
    /\ \/ \E response \in Responses : AnswerOracleQueryOnly(queryId, response)
       \/ \E response \in Responses, category \in TargetCategories,
             ord \in FindManyOrders :
            AnswerOracleQueryContinue(queryId, response, category, ord)

\* answerOracleQuery of the example-driven engine (src/src/schema/angluin.ts):
\* findUnique, throw when the row is missing, update; nothing else
exAnswerOracleQuery(db, queryId, response) ==
    IF queryId \notin DOMAIN db
    THEN [threw |-> TRUE, db |-> db]
    ELSE [threw |-> FALSE, db |-> AnswerRow(db, queryId, response)]

----------------------------------------------------------------------------
(* Example-driven engine (src/src/schema/angluin.ts)                       *)

\* the number of stored examples explored per session
MaxExamples == 2

\* A JavaScript string of this engine is a sequence of tokens, so that
\* s + a is concatenation: a property name, the JSON text of an object, or
\* the generated function code
EmptyString == <<>>

KeyString(k) == <<[kind |-> "key", key |-> k, json |-> <<>>]>>

JsonString(obj) == <<[kind |-> "json", key |-> "", json |-> obj]>>

\* the template literal returned by generateFunctionCode
GeneratedCode == <<[kind |-> "code", key |-> "", json |-> <<>>]>>

\* An object is the sequence of its <<key, value>> pairs in key order; a
\* value is Some(text) or Null for undefined
ObjProp(obj, k) ==
    IF \E i \in DOMAIN obj : obj[i][1] = k
    THEN obj[CHOOSE i \in DOMAIN obj :
               obj[i][1] = k /\ \A j \in DOMAIN obj : obj[j][1] = k => i <= j][2]
    ELSE Null

\* Object.keys
ObjKeys(obj) == [i \in DOMAIN obj |-> obj[i][1]]

\* a stored text that is not JSON: JSON.parse throws a SyntaxError on it
NotJson == << <<"not json", Null>> >>

JsonParses(text) == text # NotJson

\* the value null (JSON.parse of the stored text 'null')
JsonNull == << <<"null", Null>> >>

\* JSON.stringify of an object: keys in insertion order, undefined values
\* left out; of null: the text 'null'
Stringify(obj) ==
    IF obj = JsonNull THEN JsonNull ELSE SelectSeq(obj, LAMBDA p : p[2] # Null)

\* sourceData of the examples explored (JSON.parse of the stored text)
Sources ==
    { << <<"name", Some("Margherita Pizza")>>, <<"price", Some("12")>>,
         <<"category", Some("pizza")>> >>,
      << <<"name", Some("Water")>>, <<"price", Some("1")>> >> }

\* targetData explored for a source: the renaming name -> title, the same
\* with the keys in another order, and one with a shortened title
Targets(source) ==
    { Stringify(<< <<"title", ObjProp(source, "name")>>,
                   <<"price", ObjProp(source, "price")>>,
                   <<"category", ObjProp(source, "category")>> >>),
      Stringify(<< <<"price", ObjProp(source, "price")>>,
                   <<"title", ObjProp(source, "name")>>,
                   <<"category", ObjProp(source, "category")>> >>),
      Stringify(<< <<"title", Some("Special")>>,
                   <<"price", ObjProp(source, "price")>>,
                   <<"category", ObjProp(source, "category")>> >>) }

ExampleChoices ==
    {[type |-> ty, sourceData |-> src, targetData |-> tgt] :
        ty \in {"positive", "negative"},
        src \in Sources,
        tgt \in UNION {Targets(s) : s \in Sources}}

ExampleSets == UNION {[1..k -> ExampleChoices] : k \in 0..MaxExamples}

\* the pairs <<A[i], B[j]>> in the order of two nested for-of loops
PairSeq(A, B) ==
    [k \in 1..(Len(A) * Len(B)) |->
        <<A[((k - 1) \div Len(B)) + 1], B[((k - 1) % Len(B)) + 1]>>]

\* the function transform(entry) of the generated code
transform(entry) ==
    << <<"title", ObjProp(entry, "name")>>,
       <<"price", ObjProp(entry, "price")>>,
       <<"category", ObjProp(entry, "category")>> >>

\* evaluateHypothesis: new Function('entry', hypothesis)(entry).  The
\* generated code returns transform(entry) and throws a TypeError when
\* entry is null (entry.name); the empty body and the body 'null' return
\* undefined; any other string the engine builds (JSON text of an object,
\* property names, concatenations of them) is not a function body that
\* returns: it throws (SyntaxError or ReferenceError)
evaluateHypothesis(hypothesis, input) ==
    IF hypothesis = GeneratedCode /\ input # JsonNull
    THEN [kind |-> "value", v |-> transform(input)]
    ELSE IF hypothesis \in {EmptyString, JsonString(JsonNull)}
    THEN [kind |-> "undefined", v |-> <<>>]
    ELSE [kind |-> "throw", v |-> <<>>]

\* JSON.stringify(result) === JSON.stringify(target), false on a throw;
\* JSON.stringify(undefined) is undefined, which equals no string
isValidTransformation(s, source, target) ==
    /\ evaluateHypothesis(s, source).kind = "value"
    /\ Stringify(evaluateHypothesis(s, source).v) = Stringify(target)

\* the instance and the membership rows it reads and writes
ExCtx ==
    [S |-> exS, E |-> exE, alphabet |-> exAlphabet, table |-> exTable,
     db |-> exQueries]

\* the heuristic of membershipQuery over the positive examples
ExHeuristic(s) ==
    \E i \in DOMAIN exExamples :
       /\ exExamples[i].type = "positive"
       /\ isValidTransformation(s, exExamples[i].sourceData,
                                exExamples[i].targetData)

exMembershipAnswer(x, s, valid) ==
    [x |-> [x EXCEPT !.db = Append(@,
                [queryData |-> s,
                 response |-> IF valid THEN "true" ELSE "false",
                 status |-> "answered"])],
     ret |-> valid]

exMembershipQuery(x, s) ==
    Bind(SelectSeq(x.db, LAMBDA q : q.queryData = s /\ q.status = "answered"),
         LAMBDA existing :
           IF existing # <<>>
           THEN [x |-> x, ret |-> (Head(existing).response = "true")]
           ELSE exMembershipAnswer(x, s, ExHeuristic(s)))

rowsEqual(x, s1, s2) ==
    \A i \in DOMAIN x.E :
       getObservationTableEntry(x.table, s1, x.E[i])
         = getObservationTableEntry(x.table, s2, x.E[i])

\* makeClosed, the body of the two for loops for one s and one a
ClosedStep(x, s, a) ==
    IF /\ (s \o a) \notin Range(x.S)
       /\ ~ \E i \in DOMAIN x.S : rowsEqual(x, s \o a, x.S[i])
    THEN [x EXCEPT !.S = Append(@, s \o a)]
    ELSE x

RECURSIVE ClosedPass(_, _, _)
ClosedPass(x, pairs, i) ==
    IF i > Len(pairs) THEN x
    ELSE Bind(ClosedStep(x, pairs[i][1], pairs[i][2]),
              LAMBDA next : ClosedPass(next, pairs, i + 1))

\* makeClosed: passes are repeated while one of them added to S
RECURSIVE exMakeClosed(_)
exMakeClosed(x0) ==
    Bind(x0, LAMBDA x :
      Bind(ClosedPass(x, PairSeq(x.S, x.alphabet), 1), LAMBDA next :
        IF next.S # x.S THEN exMakeClosed(next) ELSE next))

\* makeConsistent, the loop over the experiments for one s1a, s2a
RECURSIVE ConsistentExperiments(_, _, _, _, _)
ConsistentExperiments(x, s1a, s2a, experiments, i) ==
    IF i > Len(experiments) THEN [x |-> x, changed |-> FALSE]
    ELSE Bind(exMembershipQuery(x, s1a \o experiments[i]), LAMBDA r1 :
           Bind(exMembershipQuery(r1.x, s2a \o experiments[i]), LAMBDA r2 :
             IF r1.ret # r2.ret
             THEN [x |-> [r2.x EXCEPT !.E = SetAdd(@, experiments[i])],
                   changed |-> TRUE]
             ELSE ConsistentExperiments(r2.x, s1a, s2a, experiments, i + 1)))

\* makeConsistent, the loop over the alphabet for one s1, s2
RECURSIVE ConsistentLetters(_, _, _, _, _)
ConsistentLetters(xc, s1, s2, letters, j) ==
    IF j > Len(letters) THEN xc
    ELSE IF rowsEqual(xc.x, s1 \o letters[j], s2 \o letters[j])
    THEN ConsistentLetters(xc, s1, s2, letters, j + 1)
    ELSE Bind(ConsistentExperiments(xc.x, s1 \o letters[j], s2 \o letters[j],
                                    xc.x.E, 1),
              LAMBDA r :
                ConsistentLetters([x |-> r.x,
                                   changed |-> xc.changed \/ r.changed],
                                  s1, s2, letters, j + 1))

RECURSIVE ConsistentPass(_, _, _)
ConsistentPass(xc, pairs, i) ==
    IF i > Len(pairs) THEN xc
    ELSE IF pairs[i][1] # pairs[i][2]
            /\ rowsEqual(xc.x, pairs[i][1], pairs[i][2])
    THEN Bind(ConsistentLetters(xc, pairs[i][1], pairs[i][2],
                                xc.x.alphabet, 1),
              LAMBDA next : ConsistentPass(next, pairs, i + 1))
    ELSE ConsistentPass(xc, pairs, i + 1)

\* makeConsistent: passes are repeated while one of them set changed
RECURSIVE exMakeConsistent(_)
exMakeConsistent(x0) ==
    Bind(x0, LAMBDA x :
      Bind(ConsistentPass([x |-> x, changed |-> FALSE],
                          PairSeq(x.S, x.S), 1),
           LAMBDA next :
             IF next.changed THEN exMakeConsistent(next.x) ELSE next.x))

\* buildObservationTable, the body of the two for loops
ExBuildCell(x, s, e) ==
    Bind(exMembershipQuery(x, s \o e), LAMBDA r :
      [r.x EXCEPT !.table = setObservationTableEntry(@, s, e, r.ret)])

RECURSIVE ExBuildFrom(_, _, _)
ExBuildFrom(x, pairs, i) ==
    IF i > Len(pairs) THEN x
    ELSE Bind(ExBuildCell(x, pairs[i][1], pairs[i][2]),
              LAMBDA next : ExBuildFrom(next, pairs, i + 1))

exBuildObservationTable(x0) ==
    Bind(x0, LAMBDA x :
      ExBuildFrom([x EXCEPT !.table = <<>>], PairSeq(x.S, x.E), 1))

\* generateHypothesis: the accepting states and the transitions it computes
exAcceptingStates(x) ==
    SelectSeq(x.S, LAMBDA s : getObservationTableEntry(x.table, s, EmptyString))

exTransitions(x) ==
    {<<x.S[t[1]], x.alphabet[t[2]], x.S[t[3]]>> :
        t \in {u \in (DOMAIN x.S) \X (DOMAIN x.alphabet) \X (DOMAIN x.S) :
                 /\ rowsEqual(x, x.S[u[1]] \o x.alphabet[u[2]], x.S[u[3]])
                 /\ \A m \in 1..(u[3] - 1) :
                      ~ rowsEqual(x, x.S[u[1]] \o x.alphabet[u[2]], x.S[m])}}

\* generateFunctionCode: the code returned does not depend on its arguments
generateFunctionCode(transitions, acceptingStates) == GeneratedCode

exGenerateHypothesis(x) ==
    generateFunctionCode(exTransitions(x), exAcceptingStates(x))

\* an equivalenceQuery whose catch block does not report the example
IsCounterexample_ValueOnly(hypothesis, example) ==
    /\ evaluateHypothesis(hypothesis, example.sourceData).kind = "value"
    /\ Stringify(evaluateHypothesis(hypothesis, example.sourceData).v)
         # Stringify(example.targetData)

\* equivalenceQuery: whether the hypothesis fails on an example
IsCounterexample(hypothesis, example) ==
    \/ evaluateHypothesis(hypothesis, example.sourceData).kind # "value"
    \/ Stringify(evaluateHypothesis(hypothesis, example.sourceData).v)
         # Stringify(example.targetData)

\* equivalenceQuery: the example the loop stops at, 0 if it runs through
FirstCounterexample(hypothesis) ==
    IF \E i \in DOMAIN exExamples : IsCounterexample(hypothesis, exExamples[i])
    THEN CHOOSE i \in DOMAIN exExamples :
           /\ IsCounterexample(hypothesis, exExamples[i])
           /\ \A j \in 1..(i - 1) : ~ IsCounterexample(hypothesis, exExamples[j])
    ELSE 0

\* equivalenceQuery: the row as the call leaves it and the value returned
exEquivalenceQuery(hypothesis) ==
    Bind(FirstCounterexample(hypothesis), LAMBDA i :
      IF i # 0
      THEN [row |-> [queryData |-> hypothesis,
                     response |->
                       JsonString(Stringify(exExamples[i].sourceData)),
                     status |-> "counterexample"],
            ret |-> Some(JsonString(Stringify(exExamples[i].sourceData)))]
      ELSE [row |-> [queryData |-> hypothesis,
                     response |-> KeyString("equivalent"),
                     status |-> "answered"],
            ret |-> Null])

\* learn(): the alphabet is filled with the keys of every example's source
\* and target
RECURSIVE ExampleKeys(_, _)
ExampleKeys(examples, i) ==
    IF i > Len(examples) THEN <<>>
    ELSE ObjKeys(examples[i].sourceData) \o ObjKeys(examples[i].targetData)
           \o ExampleKeys(examples, i + 1)

ExLearn ==
    /\ exPc = "idle"
    /\ exAlphabet' =
         SetAddAll(exAlphabet,
                   [i \in DOMAIN ExampleKeys(exExamples, 1) |->
                      KeyString(ExampleKeys(exExamples, 1)[i])])
    /\ exPc' = "makeClosed"
    /\ UNCHANGED <<exExamples, exS, exE, exTable, exQueries, exEqRows,
                   exHypothesis, exCounterexample>>

ExMakeClosed ==
    /\ exPc = "makeClosed"
    /\ exS' = exMakeClosed(ExCtx).S
    /\ exPc' = "makeConsistent"
    /\ UNCHANGED <<exExamples, exAlphabet, exE, exTable, exQueries, exEqRows,
                   exHypothesis, exCounterexample>>

ExMakeConsistent ==
    /\ exPc = "makeConsistent"
    /\ \E x \in {exMakeConsistent(ExCtx)} :
         /\ exE' = x.E
         /\ exQueries' = x.db
    /\ exPc' = "buildObservationTable"
    /\ UNCHANGED <<exExamples, exAlphabet, exS, exTable, exEqRows,
                   exHypothesis, exCounterexample>>

ExBuildObservationTable ==
    /\ exPc = "buildObservationTable"
    /\ \E x \in {exBuildObservationTable(ExCtx)} :
         /\ exTable' = x.table
         /\ exQueries' = x.db
    /\ exPc' = "generateHypothesis"
    /\ UNCHANGED <<exExamples, exAlphabet, exS, exE, exEqRows,
                   exHypothesis, exCounterexample>>

ExGenerateHypothesis ==
    /\ exPc = "generateHypothesis"
    /\ exHypothesis' = exGenerateHypothesis(ExCtx)
    /\ exPc' = "equivalenceQuery"
    /\ UNCHANGED <<exExamples, exAlphabet, exS, exE, exTable, exQueries,
                   exEqRows, exCounterexample>>

\* OracleQuery rows of type equivalence are kept up to their id and
\* creation time: the set of their contents
ExEquivalenceQuery ==
    /\ exPc = "equivalenceQuery"
    /\ \E r \in {exEquivalenceQuery(exHypothesis)} :
         /\ exEqRows' = exEqRows \cup {r.row}
         /\ exCounterexample' = r.ret
    /\ exPc' = "while"
    /\ UNCHANGED <<exExamples, exAlphabet, exS, exE, exTable, exQueries,
                   exHypothesis>>

\* a string | null in a condition: null and the empty string are falsy
Truthy(v) == v # Null /\ v # Some(EmptyString)

\* if (counterexample) {...} while (counterexample): the loop is entered
\* again
ExAddCounterexample ==
    /\ exPc = "while"
    /\ Truthy(exCounterexample)
    /\ exS' = SetAdd(exS, exCounterexample[1])
    /\ exE' = SetAdd(exE, EmptyString)
    /\ exPc' = "makeClosed"
    /\ UNCHANGED <<exExamples, exAlphabet, exTable, exQueries, exEqRows,
                   exHypothesis, exCounterexample>>

\* return hypothesis
ExReturn ==
    /\ exPc = "while"
    /\ ~ Truthy(exCounterexample)
    /\ exPc' = "returned"
    /\ UNCHANGED <<exExamples, exAlphabet, exS, exE, exTable, exQueries,
                   exEqRows, exHypothesis, exCounterexample>>

\* the engine before learn() is called on a session without examples
ExIdle ==
    /\ exExamples = <<>>
    /\ exPc = "idle"
    /\ exAlphabet = <<>>
    /\ exS = <<EmptyString>>
    /\ exE = <<EmptyString>>
    /\ exTable = <<>>
    /\ exQueries = <<>>
    /\ exEqRows = {}
    /\ exHypothesis = EmptyString
    /\ exCounterexample = Null

Init ==
    /\ items \in Catalogs
    /\ sessions = <<>>
    /\ queries = <<>>
    /\ learnedDFA = <<>>
    /\ lastResult = NoResult
    /\ compact = FALSE
    /\ calls = NoCalls
    /\ angluin = NoAngluin
    /\ ExIdle

Next ==
    \/ \E category \in TargetCategories, shuffledItems \in Shuffles(items),
          ord \in FindManyOrders :
         StartLearning(category, shuffledItems, ord) /\ UNCHANGED exVars
    \/ \E sid \in 1..MaxSessions : AnswerQuery(sid) /\ UNCHANGED exVars
    \/ \E sid \in 1..MaxSessions, category \in TargetCategories,
          ord \in FindManyOrders :
         CurrentDFAState(sid, category, ord) /\ UNCHANGED exVars

Spec == Init /\ [][Next]_vars

BudgetIdle ==
    /\ items = <<>>
    /\ sessions = <<>>
    /\ queries = <<>>
    /\ learnedDFA = <<>>
    /\ lastResult = NoResult
    /\ compact = FALSE
    /\ calls = NoCalls
    /\ angluin = NoAngluin

\* a learn() call on a session with the examples stored for it
ExInit ==
    /\ BudgetIdle
    /\ exExamples \in ExampleSets
    /\ exPc = "idle"
    /\ exAlphabet = <<>>
    /\ exS = <<EmptyString>>
    /\ exE = <<EmptyString>>
    /\ exTable = <<>>
    /\ exQueries = <<>>
    /\ exEqRows = {}
    /\ exHypothesis = EmptyString
    /\ exCounterexample = Null

ExNext ==
    \/ ExLearn /\ UNCHANGED budgetVars
    \/ ExMakeClosed /\ UNCHANGED budgetVars
    \/ ExMakeConsistent /\ UNCHANGED budgetVars
    \/ ExBuildObservationTable /\ UNCHANGED budgetVars
    \/ ExGenerateHypothesis /\ UNCHANGED budgetVars
    \/ ExEquivalenceQuery /\ UNCHANGED budgetVars
    \/ ExAddCounterexample /\ UNCHANGED budgetVars
    \/ ExReturn /\ UNCHANGED budgetVars

ExSpec == ExInit /\ [][ExNext]_vars

\* learn() is an async function the event loop keeps resuming: a step that
\* can be taken is taken
ExFairSpec == ExInit /\ [][ExNext]_vars /\ WF_vars(ExNext)

\* The oracle keeps answering: a session whose store is compacted (see
\* Stored) over the catalogs of at most two items, where an answerQuery
\* call that can be made is eventually made
FairInit ==
    /\ items \in {c \in Catalogs : Len(c) <= MaxFairItems}
    /\ sessions = <<>>
    /\ queries = <<>>
    /\ learnedDFA = <<>>
    /\ lastResult = NoResult
    /\ compact = TRUE
    /\ calls = NoCalls
    /\ angluin = NoAngluin
    /\ ExIdle

OracleAnswers == \E sid \in 1..MaxSessions : AnswerQuery(sid) /\ UNCHANGED exVars

FairSpec == FairInit /\ [][Next]_vars /\ WF_vars(OracleAnswers)

\* the sessions explored side by side
MaxPairSessions == 2

\* a session is started while the store holds fewer rows than this
MaxPairRows == 3

\* several sessions of the budgeted engine over the small catalogs, the
\* random sort of learn() leaving the catalog's order
PairInit ==
    /\ items \in {c \in Catalogs : Len(c) <= MaxFairItems}
    /\ sessions = <<>>
    /\ queries = <<>>
    /\ learnedDFA = <<>>
    /\ lastResult = NoResult
    /\ compact = FALSE
    /\ calls = NoCalls
    /\ angluin = NoAngluin
    /\ ExIdle

PairNext ==
    \/ \E category \in TargetCategories, ord \in FindManyOrders :
         /\ Len(sessions) < MaxPairSessions
         /\ Len(queries) < MaxPairRows
         /\ StartLearningCall(category, items, ord)
         /\ UNCHANGED exVars
    \/ \E sid \in 1..MaxPairSessions : AnswerQuery(sid) /\ UNCHANGED exVars

PairSpec == PairInit /\ [][PairNext]_vars

\* one session of the budgeted engine over the small catalogs: started on
\* the empty store, then answered and read
ResumeNext ==
    \/ \E category \in TargetCategories, shuffledItems \in Shuffles(items),
          ord \in FindManyOrders :
         /\ sessions = <<>>
         /\ StartLearningCall(category, shuffledItems, ord)
         /\ UNCHANGED exVars
    \/ AnswerQuery(Len(sessions)) /\ UNCHANGED exVars
    \/ \E category \in TargetCategories, ord \in FindManyOrders :
         CurrentDFAState(Len(sessions), category, ord) /\ UNCHANGED exVars

ResumeSpec == PairInit /\ [][ResumeNext]_vars

\* the first version of the engine: sessions are created, learn() is run
\* on them and queries are answered by id
OracleInit ==
    /\ items \in OracleCatalogs
    /\ sessions = <<>>
    /\ queries = <<>>
    /\ learnedDFA = <<>>
    /\ lastResult = NoResult
    /\ compact = FALSE
    /\ calls = NoCalls
    /\ angluin = NoAngluin
    /\ ExIdle

OracleNext ==
    \/ CreateLearningSession /\ UNCHANGED exVars
    \/ \E sid \in 1..MaxOracleSessions, category \in TargetCategories,
          shuffledItems \in Shuffles(items), ord \in FindManyOrders :
         RunAngluinAlgorithm(sid, category, shuffledItems, ord)
           /\ UNCHANGED exVars
    \/ \E queryId \in 1..MaxOracleRows :
         AnswerOracleQuery(queryId) /\ UNCHANGED exVars

OracleSpec == OracleInit /\ [][OracleNext]_vars

\* answerQuery calls of one session run concurrently: the session is
\* started on the empty store, then each call takes its steps whenever
\* the event loop resumes it
RaceNext ==
    \/ \E category \in TargetCategories, shuffledItems \in Shuffles(items),
          ord \in FindManyOrders :
         /\ sessions = <<>>
         /\ StartLearningCall(category, shuffledItems, ord)
         /\ UNCHANGED exVars
    \/ \E k \in 1..MaxRaceCalls, response \in Responses :
         AnswerQueryFindFirst(k, response) /\ UNCHANGED exVars
    \/ \E k \in 1..MaxRaceCalls : AnswerQueryUpdate(k) /\ UNCHANGED exVars
    \/ \E k \in 1..MaxRaceCalls, ord \in FindManyOrders :
         AnswerQueryFindMany(k, ord) /\ UNCHANGED exVars
    \/ \E k \in 1..MaxRaceCalls, category \in TargetCategories,
          ord \in FindManyOrders :
         AnswerQueryContinueLearning(k, category, ord) /\ UNCHANGED exVars

RaceSpec == PairInit /\ [][RaceNext]_vars

\* an AngluinLStar instance is created and its methods are called while
\* the oracle answers
InstanceNext ==
    \/ \E ord \in FindManyOrders : NewInstanceCall(ord) /\ UNCHANGED exVars
    \/ \E shuffledItems \in Shuffles(items) :
         LearnSeedCall(shuffledItems) /\ UNCHANGED exVars
    \/ InitializeCall /\ UNCHANGED exVars
    \/ BuildObservationTableCall /\ UNCHANGED exVars
    \/ \E s \in Range(angluin.c.E) :
         MembershipQueryCall(s) /\ UNCHANGED exVars
    \/ GenerateHypothesisCall /\ UNCHANGED exVars
    \/ EquivalenceQueryCall /\ UNCHANGED exVars
    \/ \E response \in InstanceResponses :
         OracleAnswer(response) /\ UNCHANGED exVars

InstanceSpec == Init /\ [][InstanceNext]_vars

----------------------------------------------------------------------------
(* makeClosed as a function of S, E, the alphabet and the table, in the   *)
(* two table modes: the budgeted engine's (src/unnamed/part_004) and the   *)
(* example-driven engine's (src/src/schema/angluin.ts)                     *)

\* a makeClosed whose loop stops at the first symbol it adds
makeClosed_FirstMissing(S, alphabet) ==
    LET missing == SelectSeq(alphabet, LAMBDA a : a \notin Range(S))
    IN [S |-> IF missing = <<>> THEN S ELSE Append(S, Head(missing)),
        closed |-> missing = <<>>]

\* makeClosed of the budgeted engine: every alphabet symbol that is not a
\* state becomes one; closed is left false when one was added
makeClosed(S, alphabet) ==
    [S |-> SetAddAll(S, alphabet),
     closed |-> \A i \in DOMAIN alphabet : alphabet[i] \in Range(S)]

\* the longest S, and the longest alphabet, a call starts from
MaxClosureStates == 2

\* the most cells the table holds when a call starts
MaxClosureCells == 2

\* the strings the initial S, the table's rows and the alphabet are drawn
\* from: the empty string, a, b and their concatenations of two
ClosureSymbols == <<KeyString("a"), KeyString("b")>>

ClosureStrings ==
    {EmptyString} \cup Range(ClosureSymbols)
      \cup {s \o a : s, a \in Range(ClosureSymbols)}

\* a Set holds a value once
NoRepeat(seq) == \A i, j \in DOMAIN seq : seq[i] = seq[j] => i = j

\* the alphabets: prefixes of a, b
ClosureAlphabets ==
    {SubSeq(ClosureSymbols, 1, n) :
       n \in 0..Min(MaxClosureStates, Len(ClosureSymbols))}

\* the initial S: Sets of the empty string and a; b is never in it
ClosureStates ==
    {S \in UNION {[1..n -> {EmptyString, KeyString("a")}] :
                    n \in 0..MaxClosureStates} : NoRepeat(S)}

ClosureExperiments == {<<EmptyString>>, <<EmptyString, KeyString("a")>>}

\* the tables: cells that hold true for the empty experiment
ClosureTables ==
    {T \in UNION {[1..n -> {[s |-> s, e |-> EmptyString, v |-> TRUE] :
                              s \in ClosureStrings}] :
                    n \in 0..MaxClosureCells} : NoRepeat(T)}

ClosureInit ==
    /\ BudgetIdle
    /\ exExamples = <<>>
    /\ exPc \in {"budgeted", "example"}
    /\ exAlphabet \in ClosureAlphabets
    /\ exS \in ClosureStates
    /\ exE \in ClosureExperiments
    /\ exTable \in ClosureTables
    /\ exQueries = <<>>
    /\ exEqRows = {}
    /\ exHypothesis = EmptyString
    /\ exCounterexample = Null

\* a makeClosed() call of the budgeted engine on the instance
MakeClosedCall(from, to) ==
    /\ exPc = from
    /\ exS' = makeClosed(exS, exAlphabet).S
    /\ exPc' = to
    /\ UNCHANGED <<exExamples, exAlphabet, exE, exTable, exQueries, exEqRows,
                   exHypothesis, exCounterexample>>

\* a makeClosed() call of the example-driven engine on the instance
ExMakeClosedCall(from, to) ==
    /\ exPc = from
    /\ exS' = exMakeClosed(ExCtx).S
    /\ exPc' = to
    /\ UNCHANGED <<exExamples, exAlphabet, exE, exTable, exQueries, exEqRows,
                   exHypothesis, exCounterexample>>

\* makeClosed() is called, and called again as soon as it has returned
ClosureNext ==
    \/ MakeClosedCall("budgeted", "budgeted closed") /\ UNCHANGED budgetVars
    \/ MakeClosedCall("budgeted closed", "budgeted closed again")
         /\ UNCHANGED budgetVars
    \/ ExMakeClosedCall("example", "example closed") /\ UNCHANGED budgetVars
    \/ ExMakeClosedCall("example closed", "example closed again")
         /\ UNCHANGED budgetVars

ClosureSpec == ClosureInit /\ [][ClosureNext]_vars

----------------------------------------------------------------------------
(* makeConsistent as a function of S, E, the alphabet, the table and the   *)
(* stored membership answers, in the two table modes                       *)

\* a makeConsistent that, for two states with equal rows, adds the last
\* experiment extended by the first state
makeConsistent_Extends(x) ==
    [E |-> IF \E i, j \in DOMAIN x.S :
                x.S[i] # x.S[j] /\ rowsEqual(x, x.S[i], x.S[j])
           THEN Append(x.E, x.E[Len(x.E)] \o KeyString("a"))
           ELSE x.E,
     consistent |-> TRUE]

\* makeConsistent of the budgeted engine: the loops over S compare the rows
\* and do nothing else; consistent is set to true
makeConsistent(x) == [E |-> x.E, consistent |-> TRUE]

\* the most answered membership rows the store holds when a call starts
MaxCacheRows == 1

\* the membership rows stored before the call: created by membershipQuery
\* for a one-symbol string and answered 'true' by answerOracleQuery
ConsistencyCaches ==
    UNION {[1..n -> {[queryData |-> s, response |-> "true",
                      status |-> "answered"] :
                       s \in Range(ClosureSymbols)}] : n \in 0..MaxCacheRows}

ConsistencyInit ==
    /\ BudgetIdle
    /\ exExamples = <<>>
    /\ exPc \in {"budgeted", "example"}
    /\ exAlphabet \in ClosureAlphabets
    /\ exS \in ClosureStates
    /\ exE \in ClosureExperiments
    /\ exTable \in ClosureTables
    /\ exQueries \in ConsistencyCaches
    /\ exEqRows = {}
    /\ exHypothesis = EmptyString
    /\ exCounterexample = Null

\* a makeConsistent() call of the budgeted engine on the instance
MakeConsistentCall(from, to) ==
    /\ exPc = from
    /\ exE' = makeConsistent(ExCtx).E
    /\ exPc' = to
    /\ UNCHANGED <<exExamples, exAlphabet, exS, exTable, exQueries, exEqRows,
                   exHypothesis, exCounterexample>>

\* one pass of the while loop of the example-driven engine's
\* makeConsistent(): with changed set the loop is entered again, otherwise
\* the call returns
ExMakeConsistentPass(from, to) ==
    /\ exPc = from
    /\ \E r \in {ConsistentPass([x |-> ExCtx, changed |-> FALSE],
                                PairSeq(exS, exS), 1)} :
         /\ exE' = r.x.E
         /\ exQueries' = r.x.db
         /\ exPc' = IF r.changed THEN from ELSE to
    /\ UNCHANGED <<exExamples, exAlphabet, exS, exTable, exEqRows,
                   exHypothesis, exCounterexample>>

\* makeConsistent() is called, and called again as soon as it has returned
ConsistencyNext ==
    \/ MakeConsistentCall("budgeted", "budgeted consistent")
         /\ UNCHANGED budgetVars
    \/ MakeConsistentCall("budgeted consistent", "budgeted consistent again")
         /\ UNCHANGED budgetVars
    \/ ExMakeConsistentPass("example", "example consistent")
         /\ UNCHANGED budgetVars
    \/ ExMakeConsistentPass("example consistent", "example consistent again")
         /\ UNCHANGED budgetVars

ConsistencySpec == ConsistencyInit /\ [][ConsistencyNext]_vars

\* makeConsistent() is an async function the event loop keeps resuming: a
\* pass that can be taken is taken
ConsistencyFairSpec ==
    ConsistencyInit /\ [][ConsistencyNext]_vars /\ WF_vars(ConsistencyNext)

----------------------------------------------------------------------------
(* Example-driven engine: examples are stored by the addExample mutation   *)
(* with the texts the client sends, and learn() is run on the session      *)

\* the examples a client adds: those of ExampleChoices and examples whose
\* sourceData does not parse or is the text 'null'
PayloadChoices ==
    ExampleChoices
      \cup {[type |-> ty, sourceData |-> src, targetData |-> tgt] :
              ty \in {"positive", "negative"},
              src \in {NotJson, JsonNull},
              tgt \in Targets(CHOOSE s \in Sources : ObjProp(s, "category") # Null)}

\* the addExample mutation: the row is created with the texts as given.
\* While learn() runs, the examples explored are those whose texts parse
AddExample(example) ==
    /\ exPc \in {"idle", "returned"} \/ JsonParses(example.sourceData)
    /\ exPc # "threw"
    /\ Len(exExamples) < MaxExamples
    /\ exExamples' = Append(exExamples, example)
    /\ UNCHANGED <<exPc, exAlphabet, exS, exE, exTable, exQueries, exEqRows,
                   exHypothesis, exCounterexample>>

\* the generateHypothesis resolver up to the end of the alphabet loop of
\* learn(): the session has a positive example; JSON.parse of every
\* example's sourceData and targetData and Object.keys of the values,
\* outside any try
PayloadLearn ==
    /\ \E i \in DOMAIN exExamples : exExamples[i].type = "positive"
    /\ IF \A i \in DOMAIN exExamples :
             /\ JsonParses(exExamples[i].sourceData)
             /\ JsonParses(exExamples[i].targetData)
             /\ exExamples[i].sourceData # JsonNull
       THEN ExLearn
       ELSE /\ exPc = "idle"
            /\ exPc' = "threw"
            /\ UNCHANGED <<exExamples, exAlphabet, exS, exE, exTable,
                           exQueries, exEqRows, exHypothesis,
                           exCounterexample>>

\* whether replaying the stored function code on a positive example gives
\* the example's target; a SyntaxError of JSON.parse and an error thrown by
\* the code are caught
TestMatches(functionCode, example) ==
    /\ JsonParses(example.sourceData)
    /\ JsonParses(example.targetData)
    /\ evaluateHypothesis(functionCode, example.sourceData).kind = "value"
    /\ Stringify(evaluateHypothesis(functionCode, example.sourceData).v)
         = Stringify(example.targetData)

\* the testHypothesis mutation on the hypothesis the resolver stored when
\* learn() returned
TestHypothesis ==
    /\ exPc = "returned"
    /\ lastResult' =
         [NoResult EXCEPT
            !.op = "testHypothesis",
            !.final =
               Some([correctCount |->
                       Cardinality({i \in DOMAIN exExamples :
                                      /\ exExamples[i].type = "positive"
                                      /\ TestMatches(exHypothesis,
                                                     exExamples[i])}),
                     totalCount |->
                       Cardinality({i \in DOMAIN exExamples :
                                      exExamples[i].type = "positive"})])]
    /\ UNCHANGED <<items, sessions, queries, learnedDFA, compact, calls,
                   angluin>>
    /\ UNCHANGED exVars

PayloadInit == BudgetIdle /\ ExIdle

PayloadNext ==
    \/ \E example \in PayloadChoices : AddExample(example) /\ UNCHANGED budgetVars
    \/ PayloadLearn /\ UNCHANGED budgetVars
    \/ ExMakeClosed /\ UNCHANGED budgetVars
    \/ ExMakeConsistent /\ UNCHANGED budgetVars
    \/ ExBuildObservationTable /\ UNCHANGED budgetVars
    \/ ExGenerateHypothesis /\ UNCHANGED budgetVars
    \/ ExEquivalenceQuery /\ UNCHANGED budgetVars
    \/ ExAddCounterexample /\ UNCHANGED budgetVars
    \/ ExReturn /\ UNCHANGED budgetVars
    \/ TestHypothesis

PayloadSpec == PayloadInit /\ [][PayloadNext]_vars

----------------------------------------------------------------------------
(* Properties *)

\* the OracleQuery rows of one kind stored for a session
SessionQueries(sid, type) ==
    {i \in DOMAIN queries :
       queries[i].sessionId = sid /\ queries[i].queryType = type}

\* C1: for every session, the number of OracleQuery rows of kind
\* 'membership' stored for it never exceeds maxMembershipQueries, whatever
\* startLearning, answerQuery and currentDFAState calls are made.
C1_MembershipBudget ==
    \A sid \in DOMAIN sessions :
       Cardinality(SessionQueries(sid, "membership")) <= maxMembershipQueries

\* a session that spent the whole membership budget, after an answer
C1_Witness ==
    /\ lastResult.op = "answerQuery"
    /\ lastResult.answered # 0
    /\ Cardinality(SessionQueries(lastResult.sessionId, "membership"))
         = maxMembershipQueries

\* C2: for every session, the number of OracleQuery rows of kind
\* 'equivalence' stored for it never exceeds maxEquivalenceQueries.
C2_EquivalenceBudget ==
    \A sid \in DOMAIN sessions :
       Cardinality(SessionQueries(sid, "equivalence")) <= maxEquivalenceQueries

\* C3: if the oracle keeps answering, every started session eventually has
\* no pending OracleQuery, and stays so (no further query is created).
C3_SessionQuiesces ==
    \A sid \in 1..MaxSessions :
       (sid \in DOMAIN sessions) ~> [](PendingIds(queries, sid) = {})

\* C4: learn() of the example-driven engine terminates and returns a
\* hypothesis, whatever the stored examples are.
C4_LearnReturns == <>(exPc = "returned")

\* C5: startLearning returns without waiting for an answer: the call is one
\* step that creates at most min(budget, catalog size) membership queries
\* for the new session, all its queries still pending and unanswered, leaves
\* every older query alone, and returns a hypothesis built over the queried
\* strings.
C5_StartLearningReturns ==
    [][Len(sessions') = Len(sessions) + 1 =>
         LET sid == Len(sessions')
             created == {i \in DOMAIN queries' : i > Len(queries)}
             membership ==
                 {i \in created : queries'[i].queryType = "membership"}
         IN /\ \A i \in DOMAIN queries : queries'[i] = queries[i]
            /\ \A i \in created : /\ queries'[i].sessionId = sid
                                  /\ queries'[i].status = "pending"
                                  /\ queries'[i].response = Null
            /\ Cardinality(membership)
                 <= Min(maxMembershipQueries, Len(items))
            /\ lastResult'.op = "startLearning"
            /\ lastResult'.sessionId = sid
            /\ Range(lastResult'.built.states)
                 = {queries'[i].query : i \in membership}
            /\ sessions'[sid].status = "active"]_vars

\* startLearning returned on a catalog larger than the budget, the budget
\* spent and nothing answered
C5_Witness ==
    /\ lastResult.op = "startLearning"
    /\ Len(items) > maxMembershipQueries
    /\ Cardinality(SessionQueries(lastResult.sessionId, "membership"))
         = maxMembershipQueries
    /\ \A i \in DOMAIN queries : queries[i].status = "pending"

\* the strings a session asked a membership query about
QueriedStrings(sid) ==
    {queries[i].query : i \in SessionQueries(sid, "membership")}

\* those of them whose stored response is a spelling of true
AcceptedStrings(sid) ==
    {queries[i].query :
       i \in {j \in SessionQueries(sid, "membership") :
                queries[j].response \in
                  {Some("true"), Some("True"), Some("TRUE"), Some("1"),
                   Some("yes"), Some("Yes"), Some("YES")}}}

AllMembershipAnswered(sid) ==
    \A i \in SessionQueries(sid, "membership") : queries[i].status = "answered"

HypothesisReplays(h, sid) ==
    /\ Range(h.states) = QueriedStrings(sid)
    /\ Range(h.acceptStates) = AcceptedStrings(sid)
    /\ \A s \in QueriedStrings(sid) :
          predictItem(s, h) <=> s \in AcceptedStrings(sid)

\* C6: when every membership query of a session is answered, the hypothesis
\* built by currentDFAState, and the one built by continueLearning, has as
\* states the queried strings and as acceptStates exactly those whose
\* stored response parses to true, so it classifies every queried item as
\* the oracle answered.
C6_HypothesisReplaysAnswers ==
    \A sid \in DOMAIN sessions :
       AllMembershipAnswered(sid) =>
         /\ \A category \in TargetCategories, ord \in FindManyOrders :
               HypothesisReplays(currentDFAState(sid, category, ord).ret, sid)
         /\ (lastResult.continued /\ lastResult.sessionId = sid) =>
               HypothesisReplays(lastResult.built, sid)

\* continueLearning ran on a session whose answers accept one queried
\* string and reject another
C6_Witness ==
    /\ lastResult.continued
    /\ AllMembershipAnswered(lastResult.sessionId)
    /\ AcceptedStrings(lastResult.sessionId) # {}
    /\ AcceptedStrings(lastResult.sessionId)
         # QueriedStrings(lastResult.sessionId)

\* C7: when the oldest pending query of an active session is an equivalence
\* query and answerQuery records the response 'correct' for it, the
\* session's status becomes 'completed'.
C7_CorrectCompletes ==
    [][\A sid \in DOMAIN sessions :
          LET i == OldestPending(queries, sid)
          IN (/\ i # 0
              /\ queries[i].queryType = "equivalence"
              /\ sessions[sid].status = "active"
              /\ queries'[i].response = Some("correct"))
             => sessions'[sid].status = "completed"]_vars

\* C8: after an answerQuery call that answered the last pending query and
\* ran continueLearning, exactly one LearnedDFA row exists for the session,
\* with the states, startState and acceptStates of the hypothesis built.
C8_OneLearnedDFA ==
    (lastResult.op = "answerQuery" /\ lastResult.continued) =>
       /\ Cardinality({i \in DOMAIN learnedDFA :
                         learnedDFA[i].sessionId = lastResult.sessionId}) = 1
       /\ \A i \in DOMAIN learnedDFA :
             learnedDFA[i].sessionId = lastResult.sessionId =>
               /\ learnedDFA[i].states = lastResult.built.states
               /\ learnedDFA[i].startState = lastResult.built.startState
               /\ learnedDFA[i].acceptStates = lastResult.built.acceptStates

\* C9: when the answer recorded for an equivalence query is a
\* counterexample string c (not 'correct'), c is in S and in E when the
\* next hypothesis of the session is built.
C9_CounterexampleAbsorbed ==
    (/\ lastResult.op = "answerQuery"
     /\ lastResult.continued
     /\ queries[lastResult.answered].queryType = "equivalence"
     /\ queries[lastResult.answered].response # Some("correct"))
    => /\ queries[lastResult.answered].response[1] \in Range(lastResult.S)
       /\ queries[lastResult.answered].response[1] \in Range(lastResult.E)

\* C10: an answerQuery call records its response on the pending query of
\* the session that was created first and changes no other OracleQuery, so
\* the answered queries of a session are always its oldest ones; and
\* startLearning creates a session's membership queries before its
\* equivalence query.
C10_OldestPendingFirst ==
    [][/\ Len(queries') >= Len(queries)
       /\ \A i \in DOMAIN queries :
            queries'[i] # queries[i] =>
              /\ queries[i].status = "pending"
              /\ \A j \in 1..(i - 1) :
                    queries[j].sessionId = queries[i].sessionId
                      => queries[j].status # "pending"
              /\ queries'[i].response # Null
              /\ queries'[i] = [queries[i] EXCEPT
                                  !.response = queries'[i].response,
                                  !.status = "answered"]
              /\ \A k \in DOMAIN queries : k # i => queries'[k] = queries[k]
              /\ lastResult'.op = "answerQuery"
              /\ lastResult'.sessionId = queries[i].sessionId
              /\ lastResult'.answered = i
       /\ \A i, j \in DOMAIN queries' :
            (/\ i < j
             /\ queries'[i].sessionId = queries'[j].sessionId
             /\ queries'[j].status = "answered")
            => queries'[i].status = "answered"
       /\ Len(sessions') = Len(sessions) + 1 =>
            \A i, j \in DOMAIN queries' :
               (/\ i > Len(queries)
                /\ j > Len(queries)
                /\ queries'[i].queryType = "membership"
                /\ queries'[j].queryType = "equivalence")
               => i < j]_vars

\* an answer recorded on a query that was not the first created, with
\* another query of the session still pending
C10_Witness ==
    /\ lastResult.op = "answerQuery"
    /\ lastResult.answered > 1
    /\ queries[lastResult.answered].status = "answered"
    /\ queries[lastResult.answered - 1].sessionId = lastResult.sessionId
    /\ PendingIds(queries, lastResult.sessionId) # {}

\* the pending OracleQuery rows of one kind stored for a session
PendingOfKind(sid, type) ==
    {i \in SessionQueries(sid, type) : queries[i].status = "pending"}

\* C11: in every reachable state each session has at most one OracleQuery
\* with status 'pending' of kind 'membership' and at most one of kind
\* 'equivalence'.
C11_OnePendingPerKind ==
    \A sid \in DOMAIN sessions : \A type \in {"membership", "equivalence"} :
       Cardinality(PendingOfKind(sid, type)) <= 1

\* C12: calls executed one at a time: once an OracleQuery has left status
\* 'pending', no later startLearning, answerQuery or currentDFAState call
\* changes its response or its status, and the row stays stored.
C12_AnsweredOnce ==
    [][\A i \in DOMAIN queries :
          queries[i].status # "pending" =>
            /\ i \in DOMAIN queries'
            /\ queries'[i].response = queries[i].response
            /\ queries'[i].status = queries[i].status]_vars

\* an answerQuery call recorded a response different from the one an
\* earlier call had recorded on an older query of the same session, and
\* went on to continueLearning
C12_Witness ==
    /\ lastResult.op = "answerQuery"
    /\ lastResult.continued
    /\ \E j \in 1..(lastResult.answered - 1) :
          /\ queries[j].sessionId = lastResult.sessionId
          /\ queries[j].status = "answered"
          /\ queries[j].response # queries[lastResult.answered].response

\* C15: answerQuery marks an answered membership query 'answered'; it marks
\* an answered equivalence query 'answered' when the response is the
\* literal 'correct' and 'counterexample' when it is any other string.
C15_StatusFollowsResponse ==
    \A i \in DOMAIN queries :
       queries[i].status # "pending" =>
         queries[i].status =
           IF queries[i].queryType = "equivalence"
              /\ queries[i].response # Some("correct")
           THEN "counterexample" ELSE "answered"

\* C16: every value returned by answerQuery is a next step (nextQuery
\* non-null, isComplete false), a final result (isComplete true, finalResult
\* non-null) or the failure reporting that nothing pending was found; none
\* has isComplete true without a finalResult.
C16_WellFormedReturn ==
    lastResult.op = "answerQuery" =>
       \/ lastResult.query # 0 /\ ~lastResult.isComplete
       \/ lastResult.isComplete /\ lastResult.final # Null
       \/ lastResult.error = "No pending queries found"

\* the error texts that report something as not found
NotFoundErrors == {"No pending queries found", "Session not found"}

\* C17: answerQuery, currentDFAState and learningMetrics called with a
\* session identifier that does not exist fail with a not-found error
\* instead of returning a normal result value.
C17_UnknownSessionFails ==
    \A sid \in 1..MaxSessions :
       sid \notin DOMAIN sessions =>
         /\ (lastResult.op = "answerQuery" /\ lastResult.sessionId = sid)
              => lastResult.error \in NotFoundErrors
         /\ learningMetrics(sid).error \in NotFoundErrors
         /\ \A category \in TargetCategories, ord \in FindManyOrders :
               currentDFAStateReturn(sid, category, ord).error
                 \in NotFoundErrors

\* C14: answerOracleQuery(queryId, response) on a query that is already
\* answered creates no OracleQuery row, changes no other row, and runs no
\* learning step (the budget counters are fields of the AngluinLStar
\* instance a learning step creates); in both versions of the resolver.
C14_ReanswerCreatesNothing ==
    [][\A id \in DOMAIN queries :
          queries[id].status # "pending" =>
            /\ (lastResult'.op = "answerOracleQuery"
                /\ lastResult'.answered = id)
               => /\ Len(queries') = Len(queries)
                  /\ \A i \in DOMAIN queries :
                        i # id => queries'[i] = queries[i]
                  /\ ~lastResult'.continued
            /\ \A response \in Responses :
                  LET r == exAnswerOracleQuery(queries, id, response)
                  IN /\ Len(r.db) = Len(queries)
                     /\ \A i \in DOMAIN queries : i # id => r.db[i] = queries[i]
      ]_vars

\* an answerOracleQuery call was made on a query that was already answered
C14_Witness ==
    /\ lastResult.op = "answerOracleQuery"
    /\ lastResult.reanswered
    /\ queries[lastResult.answered].status = "answered"

\* the OracleQuery rows of one session, in creation order
OwnRows(db, sid) == SelectSeq(db, LAMBDA q : q.sessionId = sid)

\* S, E and the table cells as initializeFromExistingQueries rebuilds them
Rebuilt(db, sid, ord) ==
    Bind(initializeFromExistingQueries(NewAngluin(sid, "pizza", db, ord)),
         LAMBDA c : [S |-> c.S, E |-> c.E, table |-> c.table])

\* what continueLearning builds: the hypothesis of its generateHypothesis
\* and the S and E it was built from
Continued(db, sid, category, ord) ==
    Bind(continueLearning(NewAngluin(sid, category, db, ord)),
         LAMBDA r : [built |-> r.built, S |-> r.S, E |-> r.E])

\* C18: sessions are independent: a startLearning or answerQuery call
\* creates, answers or modifies OracleQuery and LearnedDFA rows of one
\* session only (the session it was made for); the hypothesis, S and E its
\* continueLearning built are those continueLearning builds from the
\* session's own rows and the catalog; and after it the S, E and table
\* initializeFromExistingQueries rebuilds for any session are those it
\* rebuilds from that session's own rows.
C18_SessionsIndependent ==
    [][queries' # queries =>
        /\ \E a \in 1..MaxPairSessions :
            /\ \A i \in DOMAIN queries :
                  queries[i].sessionId # a =>
                    i \in DOMAIN queries' /\ queries'[i] = queries[i]
            /\ \A i \in DOMAIN queries' :
                  i > Len(queries) => queries'[i].sessionId = a
            /\ \A i \in DOMAIN learnedDFA :
                  learnedDFA[i].sessionId # a =>
                    i \in DOMAIN learnedDFA' /\ learnedDFA'[i] = learnedDFA[i]
            /\ \A i \in DOMAIN learnedDFA' :
                  i > Len(learnedDFA) => learnedDFA'[i].sessionId = a
            /\ \A b \in DOMAIN sessions :
                  b # a => sessions'[b] = sessions[b]
            /\ lastResult'.sessionId = a
            /\ lastResult'.continued =>
                 \E category \in TargetCategories, ord \in FindManyOrders :
                    Continued(OwnRows(SubSeq(queries', 1, Len(queries)), a),
                              a, category, ord)
                      = [built |-> lastResult'.built, S |-> lastResult'.S,
                         E |-> lastResult'.E]
        /\ \A sid \in DOMAIN sessions', ord \in FindManyOrders :
              Rebuilt(queries', sid, ord)
                = Rebuilt(OwnRows(queries', sid), sid, ord)
      ]_vars

\* two sessions with answered membership queries each, the answers of one
\* accepted and those of the other rejected, after continueLearning ran
\* for the second
C18_Witness ==
    /\ Len(sessions) >= 2
    /\ lastResult.op = "answerQuery"
    /\ lastResult.continued
    /\ lastResult.sessionId = 2
    /\ lastResult.S # <<>>
    /\ \E i \in SessionQueries(1, "membership") :
          queries[i].response = Some("true")
    /\ \A i \in SessionQueries(2, "membership") :
          queries[i].response = Some("Coke")

\* S, E and the table of an instance as sets: what they contain
Contents(c) == [S |-> Range(c.S), E |-> Range(c.E), table |-> Range(c.table)]

\* initializeFromExistingQueries run twice on one instance, the store
\* answering the second findMany in the order ord2
InitializedTwice(sid, category, ord1, ord2) ==
    Bind(initializeFromExistingQueries(
           NewAngluin(sid, category, queries, ord1)),
         LAMBDA c1 :
           [first |-> Contents(c1),
            second |-> Contents(initializeFromExistingQueries(
                                  [c1 EXCEPT !.ord = ord2]))])

\* continueLearning run twice, as the resolver runs it: on a new instance
\* over the store as the first run left it
ContinuedTwice(sid, category, ord1, ord2) ==
    Bind(continueLearning(NewAngluin(sid, category, queries, ord1)),
         LAMBDA r1 :
           [first |-> Contents(r1.c),
            second |-> Contents(continueLearning(
                                  NewAngluin(sid, category, r1.c.db,
                                             ord2)).c)])

\* C19: resume is idempotent: initializeFromExistingQueries, and
\* continueLearning as a whole, run twice in a row on a session with no
\* query answered in between leave the same S, the same E and the same
\* table contents after the second run as after the first; and run after
\* the continueLearning of an answerQuery call they rebuild the S and E
\* that call built its hypothesis from.
C19_ResumeIdempotent ==
    \A sid \in DOMAIN sessions :
    \A category \in TargetCategories, ord1, ord2 \in FindManyOrders :
       /\ LET r == InitializedTwice(sid, category, ord1, ord2)
          IN /\ r.second = r.first
             /\ (lastResult.continued /\ lastResult.sessionId = sid) =>
                  /\ r.first.S = Range(lastResult.S)
                  /\ r.first.E = Range(lastResult.E)
       /\ LET r == ContinuedTwice(sid, category, ord1, ord2)
          IN r.second = r.first

\* continueLearning has run for a session with answered membership
\* queries, some accepted and some not
C19_Witness ==
    /\ lastResult.op = "answerQuery"
    /\ lastResult.continued
    /\ Len(lastResult.S) >= 2
    /\ \E i, j \in SessionQueries(lastResult.sessionId, "membership") :
          /\ queries[i].response = Some("true")
          /\ queries[j].response = Some("Coke")

\* C20: makeClosed is a fixpoint in both table modes: whatever S, E, the
\* alphabet and the table hold, a makeClosed() call made as soon as
\* makeClosed() has returned adds no state to S (and, in the budgeted
\* engine, S then holds every alphabet symbol).
C20_MakeClosedFixpoint ==
    [][/\ exPc' \in {"budgeted closed again", "example closed again"}
          => exS' = exS
       /\ exPc' = "budgeted closed again"
          => makeClosed(exS, exAlphabet).closed]_vars

\* the second call has returned on an S the first call had added to: b is
\* in no initial S, and neither is a string of two symbols
C20_Witness ==
    \/ /\ exPc = "budgeted closed again"
       /\ KeyString("b") \in Range(exS)
    \/ /\ exPc = "example closed again"
       /\ \E i \in DOMAIN exS : Len(exS[i]) = 2

\* C13: two answerQuery calls on one session, interleaved store access by
\* store access: no pending query has its response written by both calls,
\* and two calls that answer the same pending query together create at
\* most one new equivalence query.
C13_ConcurrentAnswersExclusive ==
    /\ \A j, k \in 1..MaxRaceCalls :
          (j # k /\ calls[j].wrote # 0) => calls[j].wrote # calls[k].wrote
    /\ \A j, k \in 1..MaxRaceCalls :
          (j # k /\ calls[j].currentQuery # 0
                 /\ calls[j].currentQuery = calls[k].currentQuery)
             => calls[j].created + calls[k].created <= 1

\* C21: makeConsistent is a fixpoint in both table modes: a
\* makeConsistent() call made as soon as makeConsistent() has returned
\* returns after one pass and adds no experiment to E.
C21_MakeConsistentFixpoint ==
    [][(exPc \in {"budgeted consistent", "example consistent"})
         => (exE' = exE /\ exPc' \in {"budgeted consistent again",
                                       "example consistent again"})]_vars

\* the second call has returned on an instance with two distinct states of
\* equal rows, the case the loops of makeConsistent look for
C21_Witness ==
    /\ exPc \in {"budgeted consistent again", "example consistent again"}
    /\ \E i, j \in DOMAIN exS :
          exS[i] # exS[j] /\ rowsEqual(ExCtx, exS[i], exS[j])

\* an experiment e of E that tells s1a from s2a by the stored answers
Distinguishes(x, s1a, s2a) ==
    \E i \in DOMAIN x.E :
       exMembershipQuery(x, s1a \o x.E[i]).ret
         # exMembershipQuery(x, s2a \o x.E[i]).ret

\* two distinct states with equal rows, a symbol whose extensions of them
\* have different rows, and an experiment that tells the extensions apart
Inconsistency(x) ==
    \E i, j \in DOMAIN x.S, k \in DOMAIN x.alphabet :
       /\ x.S[i] # x.S[j]
       /\ rowsEqual(x, x.S[i], x.S[j])
       /\ ~ rowsEqual(x, x.S[i] \o x.alphabet[k], x.S[j] \o x.alphabet[k])
       /\ Distinguishes(x, x.S[i] \o x.alphabet[k], x.S[j] \o x.alphabet[k])

\* C22: concatenation-mode makeConsistent: a pass that starts on two
\* distinct states with equal rows whose one-symbol extensions have
\* different rows, with a distinguishing experiment, leaves E strictly
\* larger.
C22_InconsistencyGrowsE ==
    [][(exPc \in {"example", "example consistent"} /\ Inconsistency(ExCtx))
         => Len(exE') > Len(exE)]_vars

\* the answered membership rows of the instance's session for the string s
AnsweredFor(db, s) ==
    {i \in DOMAIN db : /\ db[i].sessionId = InstanceSession
                       /\ db[i].queryType = "membership"
                       /\ db[i].status = "answered"
                       /\ db[i].query = s}

\* the step is the call of the method op: no stored row is rewritten
MethodCalled(op) ==
    /\ angluin'.op = op
    /\ Len(queries') >= Len(queries)
    /\ SubSeq(queries', 1, Len(queries)) = queries

\* the step appended one pending row of the given type to the store
OnePendingRowCreated(type) ==
    /\ Len(queries') = Len(queries) + 1
    /\ queries'[Len(queries')].sessionId = InstanceSession
    /\ queries'[Len(queries')].queryType = type
    /\ queries'[Len(queries')].status = "pending"
    /\ queries'[Len(queries')].response = Null

\* C23: membershipQuery(s) with no answered membership query for s: with
\* membershipQueryCount at maxMembershipQueries it returns false, creates
\* no row and leaves the counter; below the budget it creates exactly one
\* pending membership row for s, adds one to the counter and returns false.
C23_MembershipBudgetBranch ==
    [][(MethodCalled("membershipQuery")
          /\ AnsweredFor(queries, angluin'.arg) = {})
         => /\ angluin'.ret = FALSE
            /\ IF angluin.c.membershipQueryCount >= maxMembershipQueries
               THEN /\ queries' = queries
                    /\ angluin'.c.membershipQueryCount
                         = angluin.c.membershipQueryCount
               ELSE /\ OnePendingRowCreated("membership")
                    /\ queries'[Len(queries')].query = angluin'.arg
                    /\ angluin'.c.membershipQueryCount
                         = angluin.c.membershipQueryCount + 1]_vars

\* membershipQuery has returned with the budget spent, for a string that
\* has no answered query
C23_Witness ==
    /\ angluin.op = "membershipQuery"
    /\ angluin.c.membershipQueryCount = maxMembershipQueries
    /\ AnsweredFor(queries, angluin.arg) = {}
    /\ angluin.ret = FALSE
    /\ Len(queries) = maxMembershipQueries

\* the tolerant reading of a stored response: the spellings of true the
\* engine lists
ReadsTrue(response) ==
    /\ response # Null
    /\ response[1] \in {"true", "True", "TRUE", "1", "yes", "Yes", "YES"}

\* C24: membershipQuery(s) for a string that has an answered membership
\* query in the session returns the parsed stored response, creates no
\* row and leaves membershipQueryCount; and buildObservationTable called
\* after initializeFromExistingQueries creates no query.
C24_CacheHitIsFree ==
    [][/\ (MethodCalled("membershipQuery")
             /\ AnsweredFor(queries, angluin'.arg) # {})
          => /\ angluin'.ret
                  \in {ReadsTrue(queries[i].response) :
                         i \in AnsweredFor(queries, angluin'.arg)}
             /\ queries' = queries
             /\ angluin'.c.membershipQueryCount
                  = angluin.c.membershipQueryCount
       /\ (angluin.op = "initializeFromExistingQueries"
             /\ MethodCalled("buildObservationTable"))
          => /\ queries' = queries
             /\ angluin'.c.membershipQueryCount
                  = angluin.c.membershipQueryCount]_vars

\* membershipQuery has returned true from a stored answer, and the table
\* rebuilt after initializeFromExistingQueries held that string
C24_Witness ==
    /\ angluin.op = "membershipQuery"
    /\ AnsweredFor(queries, angluin.arg) # {}
    /\ angluin.ret = TRUE
    /\ angluin.arg \in Range(angluin.c.E)
    /\ angluin.c.membershipQueryCount = 0

\* C26: equivalenceQuery() with equivalenceQueryCount at
\* maxEquivalenceQueries returns 'correct' and creates no row; below the
\* budget it adds one to the counter, creates exactly one pending
\* equivalence row and returns null.  It never returns another string.
C26_EquivalenceBudgetBranch ==
    [][MethodCalled("equivalenceQuery")
         => /\ angluin'.ret \in {Null, Some("correct")}
            /\ IF angluin.c.equivalenceQueryCount >= maxEquivalenceQueries
               THEN /\ angluin'.ret = Some("correct")
                    /\ queries' = queries
                    /\ angluin'.c.equivalenceQueryCount
                         = angluin.c.equivalenceQueryCount
               ELSE /\ angluin'.ret = Null
                    /\ OnePendingRowCreated("equivalence")
                    /\ angluin'.c.equivalenceQueryCount
                         = angluin.c.equivalenceQueryCount + 1]_vars

\* equivalenceQuery has returned 'correct' with the budget spent
C26_Witness ==
    /\ angluin.op = "equivalenceQuery"
    /\ angluin.c.equivalenceQueryCount = maxEquivalenceQueries
    /\ angluin.ret = Some("correct")

\* C29: the record generateHypothesis returns: states is S in insertion
\* order, acceptStates the states whose own cell (s, s) is true, in that
\* order, and startState the first state, or the empty string when there
\* is none.
C29_HypothesisSkeleton ==
    (angluin.op = "generateHypothesis" /\ ~ angluin.threw)
      => /\ angluin.ret[1].states = angluin.c.S
         /\ angluin.ret[1].acceptStates
              = SelectSeq(angluin.ret[1].states,
                          LAMBDA s : \E i \in DOMAIN angluin.c.table :
                                        /\ angluin.c.table[i].s = s
                                        /\ angluin.c.table[i].e = s
                                        /\ angluin.c.table[i].v)
         /\ angluin.ret[1].startState
              = IF angluin.ret[1].states # <<>>
                THEN angluin.ret[1].states[1] ELSE ""

\* generateHypothesis has returned a hypothesis with an accepted state
C29_Witness ==
    /\ angluin.op = "generateHypothesis"
    /\ ~ angluin.threw
    /\ angluin.ret[1].states # <<>>
    /\ angluin.ret[1].acceptStates # <<>>
    /\ angluin.ret[1].startState = angluin.ret[1].states[1]

\* the newest equivalence row of a session, 0 if it has none
NewestEquivalence(db, sid) ==
    IF \E i \in DOMAIN db : db[i].sessionId = sid
                            /\ db[i].queryType = "equivalence"
    THEN CHOOSE i \in DOMAIN db :
           /\ db[i].sessionId = sid
           /\ db[i].queryType = "equivalence"
           /\ \A j \in DOMAIN db :
                 (db[j].sessionId = sid /\ db[j].queryType = "equivalence")
                   => j <= i
    ELSE 0

\* C27: after learn() (startLearning) or continueLearning() (the
\* answerQuery that answered the last pending query), the hypothesis
\* stored in the equivalence query the call created has the states and
\* the acceptStates of the hypothesis the call built and returned.
C27_StoredHypothesisIsReturned ==
    (lastResult.op = "startLearning" \/ lastResult.continued)
      => \/ NewestEquivalence(queries, lastResult.sessionId) = 0
         \/ LET stored ==
                  queries[NewestEquivalence(queries,
                                            lastResult.sessionId)].hypothesis
            IN /\ stored.states = lastResult.built.states
               /\ stored.acceptStates = lastResult.built.acceptStates

\* String.prototype.toLowerCase on the responses explored
LowerCase(str) ==
    CASE str \in {"true", "True", "TRUE", "tRUE"} -> "true"
      [] str \in {"yes", "Yes", "YES"} -> "yes"
      [] OTHER -> str

\* C28: a stored response is read as true exactly when its lower-cased
\* text is 'true', 'yes' or '1', and membershipQuery,
\* initializeFromExistingQueries and forcePopulateObservationTable read
\* every stored response of a membership query alike.
C28_ResponseReadAlike ==
    \A i \in DOMAIN queries :
       (queries[i].queryType = "membership" /\ queries[i].status = "answered")
         => /\ MembershipParse(queries[i].response)
                 = (LowerCase(queries[i].response[1]) \in {"true", "yes", "1"})
            /\ InitializeParse(queries[i].response)
                 = MembershipParse(queries[i].response)
            /\ ForceParse(queries[i].response)
                 = MembershipParse(queries[i].response)

\* C30: in the hypothesis generateHypothesis returns, every state has, for
\* every alphabet symbol, a transition whose target is one of the states.
C30_TransitionsTotal ==
    (angluin.op = "generateHypothesis" /\ ~ angluin.threw)
      => \A s \in Range(angluin.ret[1].states),
            a \in Range(angluin.ret[1].alphabet) :
            \E target \in Range(angluin.ret[1].states) :
               <<s, a, target>> \in angluin.ret[1].transitions

C31_EmptySRecovers ==
    [][(MethodCalled("generateHypothesis") /\ angluin.c.S = <<>>)
         => /\ ~ angluin'.threw
            /\ angluin'.ret # Null
            /\ IF TableKeys(angluin.c.table) # <<>>
               THEN /\ angluin'.c.S = TableKeys(angluin.c.table)
                    /\ angluin'.ret[1].states = TableKeys(angluin.c.table)
               ELSE /\ angluin'.ret[1].states = <<>>
                    /\ angluin'.ret[1].acceptStates = <<>>
                    /\ angluin'.ret[1].startState = ""]_vars

\* C32: the hypothesis a learning iteration builds (learn in startLearning,
\* continueLearning in answerQuery) is built after makeClosed and
\* makeConsistent have run on the rebuilt table, so every catalog item is
\* one of its states.
C32_EveryItemIsAState ==
    (lastResult.op = "startLearning" \/ lastResult.continued)
      => Range(items) \subseteq Range(lastResult.built.states)

C34_UnparsablePayloadSkipped ==
    /\ exPc # "threw"
    /\ \A i \in DOMAIN exQueries : exQueries[i].status # "pending"

\* replaying the code on the example throws
ReplayThrows(code, example) ==
    /\ JsonParses(example.sourceData)
    /\ evaluateHypothesis(code, example.sourceData).kind = "throw"

\* the candidate throws as a function body, whatever it is applied to
CandidateThrows(s) ==
    \A src \in Sources \cup {JsonNull} : evaluateHypothesis(s, src).kind = "throw"

PositiveExamples(examples) ==
    {i \in DOMAIN examples : examples[i].type = "positive"}

\* C35: example-driven engine: a hypothesis body that throws on an example
\* aborts nothing.  equivalenceQuery returns the source of the first
\* example it throws on (the examples before it being reproduced) and
\* records it with status 'counterexample'; a membership query for a
\* candidate that throws is answered 'false'; testHypothesis counts
\* every positive example and none it throws on as matched.
C35_ThrowingReplayIsCounted ==
    [][/\ (exPc = "equivalenceQuery" /\ exPc' = "while")
            => \A i \in DOMAIN exExamples :
                  (/\ ReplayThrows(exHypothesis, exExamples[i])
                   /\ \A j \in 1..(i - 1) :
                         TestMatches(exHypothesis, exExamples[j]))
                    => /\ exCounterexample'
                            = Some(JsonString(Stringify(exExamples[i].sourceData)))
                       /\ [queryData |-> exHypothesis,
                           response |->
                             JsonString(Stringify(exExamples[i].sourceData)),
                           status |-> "counterexample"] \in exEqRows'
       /\ \A i \in DOMAIN exQueries' :
             CandidateThrows(exQueries'[i].queryData)
               => /\ exQueries'[i].status = "answered"
                  /\ exQueries'[i].response = "false"
       /\ (lastResult'.op = "testHypothesis" /\ lastResult' # lastResult)
            => /\ lastResult'.final[1].totalCount
                    = Cardinality(PositiveExamples(exExamples))
               /\ lastResult'.final[1].correctCount
                    + Cardinality({i \in PositiveExamples(exExamples) :
                                     ReplayThrows(exHypothesis, exExamples[i])})
                    <= lastResult'.final[1].totalCount]_vars

\* equivalenceQuery has returned the source null of an example the
\* generated code throws on and recorded it as the counterexample
C35_Witness ==
    /\ exPc = "while"
    /\ exCounterexample = Some(JsonString(JsonNull))
    /\ [queryData |-> exHypothesis, response |-> JsonString(JsonNull),
        status |-> "counterexample"] \in exEqRows
    /\ \E i \in DOMAIN exExamples : ReplayThrows(exHypothesis, exExamples[i])

\* C36: a nextQuery returned by answerQuery is the pending query of the
\* session that was created first, the one the next answerQuery answers.
C36_NextQueryIsOldestPending ==
    (lastResult.op = "answerQuery" /\ lastResult.query # 0)
      => lastResult.query = OldestPending(queries, lastResult.sessionId)

\* C37: when startLearning or answerQuery has returned isComplete = true,
\* no OracleQuery of the session is pending.
C37_CompleteLeavesNothingPending ==
    (lastResult.op \in {"startLearning", "answerQuery"} /\ lastResult.isComplete)
      => PendingIds(queries, lastResult.sessionId) = {}

\* C38: startLearning returns a currentQuery, isComplete = false and
\* finalResult = null whatever the catalog is; the currentQuery is a
\* pending query of the new session, a membership query when the catalog
\* has items and the equivalence query when it is empty.
C38_StartLearningAsks ==
    lastResult.op = "startLearning"
      => /\ lastResult.query \in DOMAIN queries
         /\ ~ lastResult.isComplete
         /\ lastResult.final = Null
         /\ queries[lastResult.query].sessionId = lastResult.sessionId
         /\ queries[lastResult.query].status = "pending"
         /\ queries[lastResult.query].queryType
              = IF items # <<>> THEN "membership" ELSE "equivalence"

\* startLearning has returned the equivalence query on the empty catalog
C38_Witness ==
    /\ lastResult.op = "startLearning"
    /\ items = <<>>
    /\ lastResult.query \in DOMAIN queries
    /\ queries[lastResult.query].queryType = "equivalence"
    /\ ~ lastResult.isComplete

\* C39: concatenation-mode makeConsistent terminates: a call that has
\* started returns after finitely many passes of its while loop.
C39_MakeConsistentTerminates ==
    (exPc = "example") ~> (exPc = "example consistent")

\* C40: between the method calls of learn, continueLearning and
\* currentDFAState the instance has S and E equal and every row key of the
\* observation table in S; S is not empty while the table has rows, so
\* generateHypothesis never repopulates S from the table.
C40_SetsAgree ==
    /\ Range(angluin.c.S) = Range(angluin.c.E)
    /\ Range(TableKeys(angluin.c.table)) \subseteq Range(angluin.c.S)
    /\ angluin.c.S = <<>> => TableKeys(angluin.c.table) = <<>>
    /\ RepopulateS(angluin.c) = angluin.c

\* generateHypothesis has returned on an instance whose table holds a row
\* for every state, an answer of the oracle being stored
C40_Witness ==
    /\ angluin.op = "generateHypothesis"
    /\ ~ angluin.threw
    /\ angluin.c.S # <<>>
    /\ TableKeys(angluin.c.table) = angluin.c.S
    /\ \E i \in DOMAIN queries : queries[i].status = "answered"

====
